---- MODULE Spec2Model ----
(***************************************************************************)
(* Signal lifecycle tracking of the PNL service: the Redis store (signal   *)
(* records, the active/completed/per-pair sets, dedupe markers), the       *)
(* evaluation tick (updateSignals / updateSignalStatus), signal ingestion  *)
(* (storeSignal, from the live handler and from backfillSignals) and the   *)
(* commands of the pnl-manager CLI (completeSignal, stopSignal,            *)
(* deleteSignal).  Every awaited Redis command is one atomic step, so that *)
(* the interleavings of the bot process and of the CLI process are the     *)
(* interleavings of the model.                                             *)
(***************************************************************************)
EXTENDS Integers, Sequences, FiniteSets, Bags, TLC

(* ----------------------------- bounds ---------------------------------- *)
\* Prices are 1..MaxPrice (the code compares floats; only the order matters).
MaxPrice == 2
\* A parsed alert carries 0..MaxTargets target prices.
MaxTargets == 2
\* Each alert is stored at most MaxCreates times (again once its marker expired).
MaxCreates == 1
\* The clock (Date.now()) runs over 0..MaxClock.
MaxClock == 2
\* At most MaxAdminOps invocations of the CLI overrides.
MaxAdminOps == 2
\* At most MaxBackfills runs of backfillSignals.
MaxBackfills == 2
\* Faults are injected while fewer than MaxEvents notifications were posted
\* (a transition that was notified but not saved is notified again).
MaxEvents == 5
\* Summaries are asked for at clock readings up to MaxReportClock.
MaxReportClock == 3
\* A message text has at most MaxClauses clauses.
MaxClauses == 4

(* --------------------------- program constants ------------------------- *)
\* JavaScript null (an absent stop-loss, an unset timestamp, no price).
Null == -1
\* Lifetime of a dedupe marker (EX: 86400 seconds), in clock steps.
DedupeTTL == 2
\* A day (local midnight to local midnight) in clock steps; clock 0 is a midnight.
DayLength == 2
\* getMonth() - 1 moves the date back by a month, taken as 30 days.
DaysPerMonth == 30
\* The entry price of the modelled alerts.
EntryPrice == 1

Prices == 1..MaxPrice
Pairs == {"BTC/USDT", "ETH/USDT"}
\* Pairs for which getCurrentPrice returns a built-in test price.
TestPairs == {"BTC/USDT"}
Directions == {"BUY", "SELL"}
MessageIds == {1}
Terminal == {"COMPLETED", "STOPPED"}
TickProcs == {"cron", "forced"}
IngestProcs == {"live"}
\* The callers of storeSignal: the live message handler and backfillSignals.
StoreProcs == IngestProcs \cup {"backfill"}

(* ------------------------------ helpers -------------------------------- *)
Range(s) == {s[i] : i \in DOMAIN s}

\* targets.sort((a, b) => a - b) for BUY, (b - a) for SELL: the sorted lists.
IsSorted(s, direction) ==
    \A i \in 1..(Len(s) - 1) :
        IF direction = "BUY" THEN s[i] <= s[i + 1] ELSE s[i] >= s[i + 1]

TargetLists(direction) ==
    {s \in UNION {[1..n -> Prices] : n \in 0..MaxTargets} : IsSorted(s, direction)}

\* Number.prototype.toFixed(2) of numerator / denominator, in hundredths
\* (rounded to the nearest hundredth, halves away from zero).
ToFixed2(numerator, denominator) ==
    IF numerator >= 0
    THEN (2 * numerator * 100 + denominator) \div (2 * denominator)
    ELSE -((2 * (-numerator) * 100 + denominator) \div (2 * denominator))

ProfitPercent_Unsigned(direction, entryPrice, target) ==
    IF target >= entryPrice
    THEN ToFixed2((target - entryPrice) * 100, entryPrice)
    ELSE ToFixed2((entryPrice - target) * 100, entryPrice)

\* profitPercent of a target: ((target - entry) / entry) * 100 for BUY,
\* ((entry - target) / entry) * 100 for SELL, toFixed(2); in hundredths of a
\* percent.
ProfitPercent(direction, entryPrice, target) ==
    IF direction = "BUY"
    THEN ToFixed2((target - entryPrice) * 100, entryPrice)
    ELSE ToFixed2((entryPrice - target) * 100, entryPrice)

\* maxLoss: null without stop-loss, else the loss at the stop-loss, toFixed(2).
MaxLoss(direction, entryPrice, stopLoss) ==
    IF stopLoss = Null THEN Null
    ELSE IF direction = "BUY"
         THEN ToFixed2((entryPrice - stopLoss) * 100, entryPrice)
         ELSE ToFixed2((stopLoss - entryPrice) * 100, entryPrice)

\* What parseSignal extracts from a message, with the id of the message.
Alerts ==
    UNION {{[pair |-> p, direction |-> d, entryPrice |-> EntryPrice, prices |-> ts,
             stopLoss |-> sl, messageId |-> m] :
                p \in Pairs, ts \in TargetLists(d), sl \in {Null} \cup Prices,
                m \in MessageIds} : d \in Directions}

\* The signal object parseSignal returns.
ParsedSignal(alert) ==
    [pair |-> alert.pair, direction |-> alert.direction,
     entryPrice |-> alert.entryPrice,
     targets |-> [i \in 1..Len(alert.prices) |->
                    [number |-> i, price |-> alert.prices[i],
                     profitPercent |-> ProfitPercent(alert.direction,
                                          alert.entryPrice, alert.prices[i]),
                     hit |-> FALSE, timestamp |-> Null]],
     stopLoss |-> alert.stopLoss,
     maxLoss |-> MaxLoss(alert.direction, alert.entryPrice, alert.stopLoss),
     stopped |-> FALSE, completed |-> FALSE, status |-> "ACTIVE"]

\* signalData of storeSignal: the parsed signal with the message and createdAt.
SignalData(alert, t) ==
    [pair |-> alert.pair, direction |-> alert.direction,
     entryPrice |-> alert.entryPrice,
     targets |-> ParsedSignal(alert).targets,
     stopLoss |-> alert.stopLoss, maxLoss |-> ParsedSignal(alert).maxLoss,
     stopped |-> FALSE, completed |-> FALSE,
     status |-> "ACTIVE", messageId |-> alert.messageId, createdAt |-> t,
     completedAt |-> Null, stoppedAt |-> Null]

\* signalHash of storeSignal.
SignalHash(pair, direction, entryPrice, messageId) ==
    <<pair, direction, entryPrice, messageId>>

\* signalId of storeSignal: `signal:${pair}:${Date.now()}`.
SignalId(pair, t) == <<pair, t>>

(* ---------------------- updateSignalStatus, in memory ------------------ *)
TargetHit_Strict(direction, currentPrice, targetPrice) ==
    IF direction = "BUY" THEN currentPrice > targetPrice
                         ELSE currentPrice < targetPrice

TargetHit_Swapped(direction, currentPrice, targetPrice) ==
    IF direction = "BUY" THEN currentPrice <= targetPrice
                         ELSE currentPrice >= targetPrice

\* targetHit: BUY ? currentPrice >= target.price : currentPrice <= target.price
TargetHit(direction, currentPrice, targetPrice) ==
    IF direction = "BUY" THEN currentPrice >= targetPrice
                         ELSE currentPrice <= targetPrice

StopHit_Swapped(direction, currentPrice, stopLoss) ==
    IF direction = "BUY" THEN currentPrice >= stopLoss
                         ELSE currentPrice <= stopLoss

\* stopHit: BUY ? currentPrice <= stopLoss : currentPrice >= stopLoss
StopHit(direction, currentPrice, stopLoss) ==
    IF direction = "BUY" THEN currentPrice <= stopLoss
                         ELSE currentPrice >= stopLoss

\* The loop over signal.targets: unhit targets the price has reached are marked.
ApplyTargetHits(signal, currentPrice, t) ==
    [signal EXCEPT !.targets =
        [i \in DOMAIN signal.targets |->
            IF ~signal.targets[i].hit
               /\ TargetHit(signal.direction, currentPrice, signal.targets[i].price)
            THEN [signal.targets[i] EXCEPT !.hit = TRUE, !.timestamp = t]
            ELSE signal.targets[i]]]

\* The numbers of the targets one evaluation newly marks, in list order.
NewlyHit(signal, currentPrice) ==
    {i \in DOMAIN signal.targets :
        ~signal.targets[i].hit
        /\ TargetHit(signal.direction, currentPrice, signal.targets[i].price)}

\* The stop-loss block: runs after the target loop, before the completion block.
ApplyStop(signal, currentPrice, t) ==
    IF signal.stopLoss # Null /\ ~signal.stopped
       /\ StopHit(signal.direction, currentPrice, signal.stopLoss)
    THEN [signal EXCEPT !.stopped = TRUE, !.stoppedAt = t, !.status = "STOPPED"]
    ELSE signal

AllTargetsHit_Any(signal) == \E i \in DOMAIN signal.targets : signal.targets[i].hit

\* signal.targets.every(t => t.hit)
AllTargetsHit(signal) == \A i \in DOMAIN signal.targets : signal.targets[i].hit

ApplyCompletion_Never(signal, t) == signal

\* The completion block.
ApplyCompletion(signal, t) ==
    IF ~signal.completed /\ ~signal.stopped /\ AllTargetsHit(signal)
    THEN [signal EXCEPT !.completed = TRUE, !.completedAt = t, !.status = "COMPLETED"]
    ELSE signal

Event(kind, id, number) == [kind |-> kind, id |-> id, number |-> number]

\* How a delivery call (the Telegram sendMessage request) may end: delivered,
\* answered with a failure, or rejected with an exception.
DeliveryOutcomes == {"ok", "failed", "threw"}

PostUpdate_Rethrow(outcome) == IF outcome = "threw" THEN "thrown" ELSE "returned"

\* What the caller of a notification sees: the try/catch around every send
\* logs the error, so the call returns whatever the delivery outcome.
PostUpdate(outcome) == "returned"

\* updateSignalStatus up to the Redis write: the mutated signal, the
\* notifications posted, and the flags signalUpdated / signalCompleted.
UpdateSignalStatus(id, signal, currentPrice, t) ==
    LET s1 == ApplyTargetHits(signal, currentPrice, t)
        s2 == ApplyStop(s1, currentPrice, t)
        s3 == ApplyCompletion(s2, t)
        stopNow == s2.stopped /\ ~s1.stopped
        doneNow == s3.completed /\ ~s2.completed
    IN  [signal |-> s3,
         emitted |-> {Event("target", id, i) : i \in NewlyHit(signal, currentPrice)}
                     \cup (IF stopNow THEN {Event("stop", id, 0)} ELSE {})
                     \cup (IF doneNow THEN {Event("completed", id, 0)} ELSE {}),
         signalUpdated |-> (NewlyHit(signal, currentPrice) # {}) \/ stopNow \/ doneNow,
         signalCompleted |-> stopNow \/ doneNow]

(* ------------------------------- state --------------------------------- *)
VARIABLES
    now,           \* the clock read by Date.now() / new Date()
    records,       \* Redis string keys signal:<pair>:<ts> -> signal JSON
    activeSet,     \* Redis set active_signals
    completedSet,  \* Redis set completed_signals
    pairSet,       \* Redis sets signals:<pair>
    markers,       \* Redis keys signal:hash:<hash> -> expiry instant
    events,        \* bag of the notifications handed to delivery
    tick,          \* per running updateSignals: position and local variables
    admin,         \* the CLI override in progress
    ingest,        \* per running storeSignal: position and local variables
    created,       \* bag of the alerts storeSignal has written a record for
    messages,      \* the source channel's messages that parse as signals
    adminOps,      \* number of CLI overrides started
    backfill,      \* the backfillSignals run in progress and its local variables
    boot,          \* start(): position, outcomes, whether the jobs are scheduled
    report,        \* the last summary generatePnlSummary computed
    parser         \* a message text and what parseSignal returned for it

store == <<records, activeSet, completedSet, pairSet, markers>>
\* Startup, reporting and parsing state, which the tracking operations leave alone.
ancillary == <<boot, report, parser>>
vars == <<now, records, activeSet, completedSet, pairSet, markers, events,
          tick, admin, ingest, created, adminOps, messages, backfill, boot,
          report, parser>>

IdSpace == {SignalId(p, t) : p \in Pairs, t \in 0..MaxClock}

IdleTick ==
    [pc |-> "idle", ids |-> <<>>, loaded |-> <<>>, pairs |-> <<>>, price |-> Null,
     queue |-> <<>>, cur |-> <<>>, skipped |-> {}, failed |-> FALSE,
     lookups |-> <<>>, evaluated |-> <<>>]
IdleAdmin ==
    [pc |-> "idle", op |-> "none", id |-> <<>>, before |-> <<>>, signal |-> <<>>,
     delivery |-> "none", result |-> FALSE]
IdleIngest ==
    [pc |-> "idle", alert |-> <<>>, id |-> <<>>, delivery |-> "none",
     threw |-> FALSE, result |-> <<>>]

IdleBackfill ==
    [pc |-> "idle", queue |-> <<>>, signalsFound |-> 0, stored |-> 0, runs |-> 0]

\* start() has returned true: the store is connected and the jobs are scheduled.
StartedBot ==
    [pc |-> "done", connect |-> "connected", sender |-> "ok",
     scheduled |-> TRUE, result |-> TRUE]

\* No summary has been generated.
NoReport == [period |-> "none", at |-> Null, signals |-> {}, stats |-> <<>>]

\* No text is being parsed.
NoText == [pc |-> "done", text |-> <<>>, result |-> <<>>]

\* The empty store, with the messages the source channel will deliver.
InitStore(inboxes) ==
    /\ messages \in inboxes
    /\ now = 0
    /\ records = <<>>
    /\ activeSet = {}
    /\ completedSet = {}
    /\ pairSet = [p \in Pairs |-> {}]
    /\ markers = <<>>
    /\ events = EmptyBag
    /\ tick = [t \in TickProcs |-> IdleTick]
    /\ admin = IdleAdmin
    /\ ingest = [p \in StoreProcs |-> IdleIngest]
    /\ created = EmptyBag
    /\ adminOps = 0
    /\ backfill = IdleBackfill

\* The same with the bot started, no summary requested and no text to parse.
InitWith(inboxes) ==
    /\ InitStore(inboxes)
    /\ boot = StartedBot
    /\ report = NoReport
    /\ parser = NoText

\* redis.set(key, value): creates or overwrites the key.
RedisSet(db, key, value) == [k \in DOMAIN db \cup {key} |-> IF k = key THEN value ELSE db[k]]

Emit(bag, evs) == bag (+) SetToBag(evs)

AdvanceClock ==
    /\ now < MaxClock
    /\ now' = now + 1
    /\ UNCHANGED <<store, events, tick, admin, ingest, created, adminOps, messages, backfill, ancillary>>

(* --------------------- the evaluation tick: updateSignals -------------- *)
\* The orders in which redis.sMembers may list a set.
Orderings(S) == {s \in [1..Cardinality(S) -> S] : Range(s) = S}

PairOrder_PerSignal(loaded) == [i \in DOMAIN loaded |-> loaded[i].signal.pair]

\* Keys of pairToSignals in insertion order (the order of `for (pair in ...)`).
RECURSIVE PairOrder(_)
PairOrder(loaded) ==
    IF loaded = <<>> THEN <<>>
    ELSE LET rest == PairOrder(SubSeq(loaded, 1, Len(loaded) - 1))
             pair == loaded[Len(loaded)].signal.pair
         IN  IF pair \in Range(rest) THEN rest ELSE Append(rest, pair)

\* pairToSignals[pair]
GroupOf(loaded, pair) ==
    LET Test(e) == e.signal.pair = pair IN SelectSeq(loaded, Test)

\* What getCurrentPrice(pair) may return: a price, or null when the lookup fails.
PriceOutcomes(pair) == IF pair \in TestPairs THEN Prices ELSE Prices \cup {Null}

PriceUnavailable_Never(currentPrice) == FALSE

\* if (!currentPrice) continue;
PriceUnavailable(currentPrice) == currentPrice = Null

\* After one signal of a group: the next signal, or the next pair.
NextSignal(local) ==
    IF local.queue = <<>>
    THEN [local EXCEPT !.pc = "price", !.cur = <<>>, !.price = Null]
    ELSE [local EXCEPT !.pc = "eval", !.cur = <<>>]

\* sMembers('active_signals'); an empty set ends the tick at once.  The CLI
\* runs one command per invocation: a forced update or an override, not both.
TickStart(t) ==
    /\ tick[t].pc = "idle"
    /\ t = "forced" => admin.pc = "idle"
    /\ activeSet # {}
    /\ \E order \in Orderings(activeSet) :
          tick' = [tick EXCEPT ![t] = [IdleTick EXCEPT !.pc = "load", !.ids = order]]
    /\ UNCHANGED <<now, store, events, admin, ingest, created, adminOps, messages, backfill, ancillary>>

\* redis.get(signalId) of the grouping loop; a missing record is skipped.
TickLoad(t) ==
    /\ tick[t].pc = "load"
    /\ LET id == Head(tick[t].ids)
           rest == Tail(tick[t].ids)
           loaded == IF id \in DOMAIN records
                     THEN Append(tick[t].loaded, [id |-> id, signal |-> records[id]])
                     ELSE tick[t].loaded
       IN  tick' = [tick EXCEPT ![t] =
                IF rest = <<>>
                THEN [@ EXCEPT !.pc = "price", !.ids = rest, !.loaded = loaded,
                               !.pairs = PairOrder(loaded)]
                ELSE [@ EXCEPT !.ids = rest, !.loaded = loaded]]
    /\ UNCHANGED <<now, store, events, admin, ingest, created, adminOps, messages, backfill, ancillary>>

\* getCurrentPrice(pair) for the next pair; without a price the pair is skipped.
\* With no pair left the tick returns.
TickPrice(t) ==
    /\ tick[t].pc = "price"
    /\ IF tick[t].pairs = <<>>
       THEN tick' = [tick EXCEPT ![t] = IdleTick]
       ELSE LET pair == Head(tick[t].pairs) IN
            \E currentPrice \in PriceOutcomes(pair) :
               LET seen == IF currentPrice = Null
                           THEN tick[t].skipped \cup {pair} ELSE tick[t].skipped
               IN  tick' = [tick EXCEPT ![t] =
                      IF PriceUnavailable(currentPrice)
                      THEN [@ EXCEPT !.pairs = Tail(@), !.skipped = seen,
                                     !.lookups = Append(@, [pair |-> pair,
                                                      price |-> currentPrice])]
                      ELSE [@ EXCEPT !.pc = "eval", !.pairs = Tail(@),
                                     !.price = currentPrice, !.skipped = seen,
                                     !.queue = GroupOf(tick[t].loaded, pair),
                                     !.lookups = Append(@, [pair |-> pair,
                                                      price |-> currentPrice])]]
    /\ UNCHANGED <<now, store, events, admin, ingest, created, adminOps, messages, backfill, ancillary>>

\* updateSignalStatus on the snapshot read by the grouping loop, up to the
\* write: targets, stop-loss, completion, and the notifications they post; d
\* is the most severe outcome of the delivery calls of this evaluation.  An
\* exception reaching updateSignalStatus is caught there, before the write.
TickEval(t) ==
    /\ tick[t].pc = "eval"
    /\ LET e == Head(tick[t].queue)
           r == UpdateSignalStatus(e.id, e.signal, tick[t].price, now)
           seen == Append(tick[t].evaluated,
                          [id |-> e.id, pair |-> e.signal.pair,
                           price |-> tick[t].price])
       IN  /\ \E d \in (IF r.emitted = {} THEN {"none"} ELSE DeliveryOutcomes) :
                 tick' = [tick EXCEPT ![t] =
                    IF PostUpdate(d) = "thrown"
                    THEN NextSignal([@ EXCEPT !.queue = Tail(@),
                                              !.evaluated = seen])
                    ELSE [@ EXCEPT !.pc = "save", !.queue = Tail(@),
                            !.evaluated = seen,
                            !.cur = <<[id |-> e.id, before |-> e.signal,
                                       signal |-> r.signal, emitted |-> r.emitted,
                                       delivery |-> d,
                                       signalUpdated |-> r.signalUpdated,
                                       signalCompleted |-> r.signalCompleted]>>]]
           /\ events' = Emit(events, r.emitted)
    /\ UNCHANGED <<now, store, admin, ingest, created, adminOps, messages, backfill, ancillary>>

\* if (signalUpdated) redis.set(signalId, JSON.stringify(signal))
TickSave(t) ==
    /\ tick[t].pc = "save"
    /\ LET c == tick[t].cur[1] IN
         IF c.signalUpdated
         THEN /\ records' = RedisSet(records, c.id, c.signal)
              /\ tick' = [tick EXCEPT ![t] =
                     IF c.signalCompleted THEN [@ EXCEPT !.pc = "srem"]
                     ELSE NextSignal(@)]
         ELSE /\ records' = records
              /\ tick' = [tick EXCEPT ![t] = NextSignal(@)]
    /\ UNCHANGED <<now, activeSet, completedSet, pairSet, markers, events, admin,
                   ingest, created, adminOps, messages, backfill, ancillary>>

TickSRem_AlsoPair(t) ==
    /\ tick[t].pc = "srem"
    /\ activeSet' = activeSet \ {tick[t].cur[1].id}
    /\ pairSet' = [p \in Pairs |-> pairSet[p] \ {tick[t].cur[1].id}]
    /\ tick' = [tick EXCEPT ![t].pc = "sadd"]
    /\ UNCHANGED <<now, records, completedSet, markers, events, admin,
                   ingest, created, adminOps, messages, backfill, ancillary>>

\* redis.sRem('active_signals', signalId)
TickSRem(t) ==
    /\ tick[t].pc = "srem"
    /\ activeSet' = activeSet \ {tick[t].cur[1].id}
    /\ tick' = [tick EXCEPT ![t].pc = "sadd"]
    /\ UNCHANGED <<now, records, completedSet, pairSet, markers, events, admin,
                   ingest, created, adminOps, messages, backfill, ancillary>>

\* redis.sAdd('completed_signals', signalId)
TickSAdd(t) ==
    /\ tick[t].pc = "sadd"
    /\ completedSet' = completedSet \cup {tick[t].cur[1].id}
    /\ tick' = [tick EXCEPT ![t] = NextSignal(@)]
    /\ UNCHANGED <<now, records, activeSet, pairSet, markers, events, admin,
                   ingest, created, adminOps, messages, backfill, ancillary>>

\* A Redis command of updateSignalStatus (set, sRem or sAdd) is rejected: the
\* catch of updateSignalStatus logs the error and the function returns, so
\* the loops of updateSignals go on with the next signal or pair.
TickStoreFails(t) ==
    /\ \/ tick[t].pc = "save" /\ tick[t].cur[1].signalUpdated
       \/ tick[t].pc \in {"srem", "sadd"}
    /\ tick' = [tick EXCEPT ![t] = NextSignal([@ EXCEPT !.failed = TRUE])]
    /\ UNCHANGED <<now, store, events, admin, ingest, created, adminOps, messages,
                   backfill, ancillary>>

\* redis.get of the grouping loop is rejected: the outer catch of
\* updateSignals logs the error and the tick returns.
TickReadFails(t) ==
    /\ tick[t].pc = "load"
    /\ tick' = [tick EXCEPT ![t] = IdleTick]
    /\ UNCHANGED <<now, store, events, admin, ingest, created, adminOps, messages,
                   backfill, ancillary>>

\* The process running the tick is stopped between two awaited commands.
TickAbandon(t) ==
    /\ tick[t].pc # "idle"
    /\ tick' = [tick EXCEPT ![t] = IdleTick]
    /\ UNCHANGED <<now, store, events, admin, ingest, created, adminOps, messages,
                   backfill, ancillary>>

(* ------------------ the CLI overrides: completeSignal, stopSignal ------ *)
MarkCompleted_Restamp(signal, t) ==
    [signal EXCEPT
        !.targets = [i \in DOMAIN signal.targets |->
                        [signal.targets[i] EXCEPT !.hit = TRUE, !.timestamp = t]],
        !.completed = TRUE, !.completedAt = t, !.status = "COMPLETED"]

\* completeSignal in memory: every unhit target is marked, status COMPLETED.
MarkCompleted(signal, t) ==
    [signal EXCEPT
        !.targets = [i \in DOMAIN signal.targets |->
                        IF ~signal.targets[i].hit
                        THEN [signal.targets[i] EXCEPT !.hit = TRUE, !.timestamp = t]
                        ELSE signal.targets[i]],
        !.completed = TRUE, !.completedAt = t, !.status = "COMPLETED"]

MarkStopped_ClearsHits(signal, t) ==
    [signal EXCEPT
        !.targets = [i \in DOMAIN signal.targets |->
                        [signal.targets[i] EXCEPT !.hit = FALSE, !.timestamp = Null]],
        !.stopped = TRUE, !.stoppedAt = t, !.status = "STOPPED"]

\* stopSignal in memory: status STOPPED.
MarkStopped(signal, t) ==
    [signal EXCEPT !.stopped = TRUE, !.stoppedAt = t, !.status = "STOPPED"]

\* redis.get(signalId) of completeSignal / stopSignal, and the in-memory update;
\* an unknown id returns false.
AdminGet(op, id) ==
    /\ admin.pc = "idle"
    /\ tick["forced"].pc = "idle"
    /\ adminOps < MaxAdminOps
    /\ adminOps' = adminOps + 1
    /\ admin' = IF id \notin DOMAIN records
                THEN [IdleAdmin EXCEPT !.pc = "done", !.op = op, !.id = id]
                ELSE [IdleAdmin EXCEPT !.pc = "set", !.op = op, !.id = id,
                        !.before = <<records[id]>>,
                        !.signal = <<IF op = "complete"
                                     THEN MarkCompleted(records[id], now)
                                     ELSE MarkStopped(records[id], now)>>]
    /\ UNCHANGED <<now, store, events, tick, ingest, created, messages, backfill, ancillary>>

\* redis.set(signalId, JSON.stringify(signal))
AdminSet ==
    /\ admin.pc = "set"
    /\ records' = RedisSet(records, admin.id, admin.signal[1])
    /\ admin' = [admin EXCEPT !.pc = "srem"]
    /\ UNCHANGED <<now, activeSet, completedSet, pairSet, markers, events, tick,
                   ingest, created, adminOps, messages, backfill, ancillary>>

\* redis.sRem('active_signals', signalId)
AdminSRem ==
    /\ admin.pc = "srem"
    /\ activeSet' = activeSet \ {admin.id}
    /\ admin' = [admin EXCEPT !.pc = "sadd"]
    /\ UNCHANGED <<now, records, completedSet, pairSet, markers, events, tick,
                   ingest, created, adminOps, messages, backfill, ancillary>>

\* redis.sAdd('completed_signals', signalId)
AdminSAdd ==
    /\ admin.pc = "sadd"
    /\ completedSet' = completedSet \cup {admin.id}
    /\ admin' = [admin EXCEPT !.pc = "notify"]
    /\ UNCHANGED <<now, records, activeSet, pairSet, markers, events, tick,
                   ingest, created, adminOps, messages, backfill, ancillary>>

\* telegramService.sendMessage of the manual message, inside its own
\* try/catch; then return true.
AdminNotify ==
    /\ admin.pc = "notify"
    /\ events' = Emit(events, {Event(IF admin.op = "complete" THEN "manual_complete"
                                      ELSE "manual_stop", admin.id, 0)})
    /\ \E d \in DeliveryOutcomes :
          admin' = [admin EXCEPT !.pc = "done", !.delivery = d,
                                 !.result = (PostUpdate(d) = "returned")]
    /\ UNCHANGED <<now, store, tick, ingest, created, adminOps, messages, backfill, ancillary>>

\* The CLI command ends.
AdminReturn ==
    /\ admin.pc = "done"
    /\ admin' = IdleAdmin
    /\ UNCHANGED <<now, store, events, tick, ingest, created, adminOps, messages, backfill, ancillary>>

(* ------------------------- the CLI: deleteSignal ----------------------- *)
RedisDel_Keep(db, key) == db

\* redis.del(key)
RedisDel(db, key) == [k \in DOMAIN db \ {key} |-> db[k]]

\* redis.exists(signalId); an unknown id returns false.
DeleteExists(id) ==
    /\ admin.pc = "idle"
    /\ tick["forced"].pc = "idle"
    /\ adminOps < MaxAdminOps
    /\ adminOps' = adminOps + 1
    /\ admin' = IF id \notin DOMAIN records
                THEN [IdleAdmin EXCEPT !.pc = "done", !.op = "delete", !.id = id]
                ELSE [IdleAdmin EXCEPT !.pc = "dget", !.op = "delete", !.id = id]
    /\ UNCHANGED <<now, store, events, tick, ingest, created, messages, backfill, ancillary>>

\* redis.get(signalId), to extract the pair (null when the record is gone).
DeleteGet ==
    /\ admin.pc = "dget"
    /\ admin' = [admin EXCEPT !.pc = "del",
                    !.before = IF admin.id \in DOMAIN records
                               THEN <<records[admin.id]>> ELSE <<>>]
    /\ UNCHANGED <<now, store, events, tick, ingest, created, adminOps, messages,
                   backfill, ancillary>>

DeleteDel_ClearsMarker ==
    /\ admin.pc = "del"
    /\ records' = RedisDel(records, admin.id)
    /\ markers' = [k \in DOMAIN markers |->
                      IF admin.before # <<>>
                         /\ k = SignalHash(admin.before[1].pair, admin.before[1].direction,
                                           admin.before[1].entryPrice,
                                           admin.before[1].messageId)
                      THEN 0 ELSE markers[k]]
    /\ admin' = [admin EXCEPT !.pc = "dactive"]
    /\ UNCHANGED <<now, activeSet, completedSet, pairSet, events, tick,
                   ingest, created, adminOps, messages, backfill, ancillary>>

\* redis.del(signalId)
DeleteDel ==
    /\ admin.pc = "del"
    /\ records' = RedisDel(records, admin.id)
    /\ admin' = [admin EXCEPT !.pc = "dactive"]
    /\ UNCHANGED <<now, activeSet, completedSet, pairSet, markers, events, tick,
                   ingest, created, adminOps, messages, backfill, ancillary>>

\* redis.sRem('active_signals', signalId)
DeleteSRemActive ==
    /\ admin.pc = "dactive"
    /\ activeSet' = activeSet \ {admin.id}
    /\ admin' = [admin EXCEPT !.pc = "dcompleted"]
    /\ UNCHANGED <<now, records, completedSet, pairSet, markers, events, tick,
                   ingest, created, adminOps, messages, backfill, ancillary>>

\* redis.sRem('completed_signals', signalId)
DeleteSRemCompleted ==
    /\ admin.pc = "dcompleted"
    /\ completedSet' = completedSet \ {admin.id}
    /\ admin' = [admin EXCEPT !.pc = "dpair"]
    /\ UNCHANGED <<now, records, activeSet, pairSet, markers, events, tick,
                   ingest, created, adminOps, messages, backfill, ancillary>>

\* if (pair) redis.sRem(`signals:${pair}`, signalId); then return true.
DeleteSRemPair ==
    /\ admin.pc = "dpair"
    /\ pairSet' = IF admin.before = <<>> THEN pairSet
                  ELSE [pairSet EXCEPT ![admin.before[1].pair] = @ \ {admin.id}]
    /\ admin' = [admin EXCEPT !.pc = "done", !.result = TRUE]
    /\ UNCHANGED <<now, records, activeSet, completedSet, markers, events, tick,
                   ingest, created, adminOps, messages, backfill, ancillary>>

(* ----------------------------- storeSignal ----------------------------- *)
MarkerExists_Never(key) == FALSE

\* redis.exists(duplicateKey): a marker past its EX lifetime is gone.
MarkerExists(key) == key \in DOMAIN markers /\ now < markers[key]

HashOf(alert) ==
    SignalHash(alert.pair, alert.direction, alert.entryPrice, alert.messageId)

DuplicateReturn_Throws(alert) ==
    [IdleIngest EXCEPT !.pc = "done", !.alert = <<alert>>, !.threw = TRUE]

\* if (exists) return null: the call ends with no id, no notification and no
\* exception.
DuplicateReturn(alert) == [IdleIngest EXCEPT !.pc = "done", !.alert = <<alert>>]

\* redis.exists(duplicateKey); a duplicate returns null.  A call is modelled
\* while the alert has been stored fewer than MaxCreates times or its marker
\* is still in Redis.
IngestExists(p, alert) ==
    /\ ingest[p].pc = "idle"
    /\ alert \in messages
    /\ \/ CopiesIn(HashOf(alert), created) < MaxCreates
       \/ HashOf(alert) \in DOMAIN markers /\ now < markers[HashOf(alert)]
    /\ ingest' = [ingest EXCEPT ![p] =
          IF MarkerExists(HashOf(alert))
          THEN DuplicateReturn(alert)
          ELSE [IdleIngest EXCEPT !.pc = "mark", !.alert = <<alert>>]]
    /\ UNCHANGED <<now, store, events, tick, admin, created, adminOps, messages, backfill, ancillary>>

\* redis.set(duplicateKey, '1', { EX: 86400 })
IngestMark(p) ==
    /\ ingest[p].pc = "mark"
    /\ markers' = RedisSet(markers, HashOf(ingest[p].alert[1]), now + DedupeTTL)
    /\ ingest' = [ingest EXCEPT ![p].pc = "record"]
    /\ UNCHANGED <<now, records, activeSet, completedSet, pairSet, events, tick,
                   admin, created, adminOps, messages, backfill, ancillary>>

\* signalId from Date.now(); redis.set(signalId, JSON.stringify(signalData))
IngestRecord(p) ==
    /\ ingest[p].pc = "record"
    /\ LET alert == ingest[p].alert[1]
           id == SignalId(alert.pair, now)
       IN  /\ records' = RedisSet(records, id, SignalData(alert, now))
           /\ ingest' = [ingest EXCEPT ![p].pc = "sadd", ![p].id = id]
    /\ created' = created (+) SetToBag({HashOf(ingest[p].alert[1])})
    /\ UNCHANGED <<now, activeSet, completedSet, pairSet, markers, events, tick,
                   admin, adminOps, messages, backfill, ancillary>>

\* redis.sAdd('active_signals', signalId)
IngestSAddActive(p) ==
    /\ ingest[p].pc = "sadd"
    /\ activeSet' = activeSet \cup {ingest[p].id}
    /\ ingest' = [ingest EXCEPT ![p].pc = "spair"]
    /\ UNCHANGED <<now, records, completedSet, pairSet, markers, events, tick,
                   admin, created, adminOps, messages, backfill, ancillary>>

\* redis.sAdd(`signals:${signal.pair}`, signalId)
IngestSAddPair(p) ==
    /\ ingest[p].pc = "spair"
    /\ pairSet' = [pairSet EXCEPT ![ingest[p].alert[1].pair] = @ \cup {ingest[p].id}]
    /\ ingest' = [ingest EXCEPT ![p].pc = "notify"]
    /\ UNCHANGED <<now, records, activeSet, completedSet, markers, events, tick,
                   admin, created, adminOps, messages, backfill, ancillary>>

\* sendPnlUpdate of the new-signal message, inside its own try/catch; then
\* return signalId.
IngestNotify(p) ==
    /\ ingest[p].pc = "notify"
    /\ events' = Emit(events, {Event("new", ingest[p].id, 0)})
    /\ \E d \in DeliveryOutcomes :
          ingest' = [ingest EXCEPT ![p] =
             IF PostUpdate(d) = "thrown"
             THEN [@ EXCEPT !.pc = "done", !.delivery = d, !.threw = TRUE]
             ELSE [@ EXCEPT !.pc = "done", !.delivery = d, !.result = <<ingest[p].id>>]]
    /\ UNCHANGED <<now, store, tick, admin, created, adminOps, messages, backfill, ancillary>>

\* storeSignal has returned to processMessage.
IngestReturn(p) ==
    /\ ingest[p].pc = "done"
    /\ ingest' = [ingest EXCEPT ![p] = IdleIngest]
    /\ UNCHANGED <<now, store, events, tick, admin, created, adminOps, messages, backfill, ancillary>>

\* A Redis command of storeSignal (the set of the marker or of the record, or
\* an sAdd) is rejected: the catch of storeSignal logs and rethrows, nothing
\* written before is taken back, and processMessage returns false.
IngestStoreFails(p) ==
    /\ ingest[p].pc \in {"mark", "record", "sadd", "spair"}
    /\ ingest' = [ingest EXCEPT ![p].pc = "done", ![p].threw = TRUE]
    /\ UNCHANGED <<now, store, events, tick, admin, created, adminOps, messages,
                   backfill, ancillary>>

(* --------------------------- backfillSignals --------------------------- *)
\* client.getMessages(channel, { limit }): the messages of the channel, in
\* the order the client returns them; signalsFound = 0.
BackfillStart ==
    /\ backfill.pc = "idle"
    /\ backfill.runs < MaxBackfills
    /\ \E order \in Orderings(messages) :
          backfill' = [IdleBackfill EXCEPT !.pc = "loop", !.queue = order,
                                          !.runs = backfill.runs + 1]
    /\ UNCHANGED <<now, store, events, tick, admin, ingest, created, adminOps,
                   messages, ancillary>>

\* processMessage(messageData) for the next message: parseSignal, then
\* storeSignal up to redis.exists(duplicateKey).
BackfillProcess ==
    /\ backfill.pc = "loop"
    /\ backfill.queue # <<>>
    /\ ingest["backfill"].pc = "idle"
    /\ LET alert == Head(backfill.queue) IN
          ingest' = [ingest EXCEPT !["backfill"] =
             IF MarkerExists(HashOf(alert))
             THEN DuplicateReturn(alert)
             ELSE [IdleIngest EXCEPT !.pc = "mark", !.alert = <<alert>>]]
    /\ backfill' = [backfill EXCEPT !.pc = "call", !.queue = Tail(@)]
    /\ UNCHANGED <<now, store, events, tick, admin, created, adminOps, messages, ancillary>>

\* processMessage returns true once storeSignal has returned (an id or null)
\* and false when it threw; if (processed) signalsFound++.  stored counts the
\* calls of this run that wrote a record.
BackfillCount ==
    /\ backfill.pc = "call"
    /\ ingest["backfill"].pc = "done"
    /\ LET processed == ~ingest["backfill"].threw IN
          backfill' = [backfill EXCEPT
             !.pc = "loop",
             !.signalsFound = IF processed THEN @ + 1 ELSE @,
             !.stored = IF ingest["backfill"].id # <<>> THEN @ + 1 ELSE @]
    /\ ingest' = [ingest EXCEPT !["backfill"] = IdleIngest]
    /\ UNCHANGED <<now, store, events, tick, admin, created, adminOps, messages, ancillary>>

\* return signalsFound
BackfillReturn ==
    /\ backfill.pc = "loop"
    /\ backfill.queue = <<>>
    /\ backfill' = [backfill EXCEPT !.pc = "done"]
    /\ UNCHANGED <<now, store, events, tick, admin, ingest, created, adminOps,
                   messages, ancillary>>

\* The caller has the count; the next scheduled or manual run may start.
BackfillEnd ==
    /\ backfill.pc = "done"
    /\ backfill' = [IdleBackfill EXCEPT !.runs = backfill.runs]
    /\ UNCHANGED <<now, store, events, tick, admin, ingest, created, adminOps,
                   messages, ancillary>>

(* ------------------------------ parseSignal ---------------------------- *)
\* A message text is a sequence of tokens separated by single spaces.  The
\* tokens and the characters they stand for:
\*   MARK "📈 SIGNAL:"   PAIR "ETH/USDT"   LONG "LONG"   SHORT "SHORT"
\*   ENTRY "Entry:"   TARGET "Target"   STOP "Stop Loss:"   IDX "1:"
\*   WORD "soon"   NUM the decimal digits of value
Tok(kind) == [kind |-> kind, value |-> 0]
Num(n) == [kind |-> "NUM", value |-> n]
Idx == [kind |-> "IDX", value |-> 1]

\* The numbers written in the texts.
Numbers == {30000, 30001}

\* The pieces texts are put together from: a cue or word alone, a number
\* alone, a cue with its number, a target with index and number.
Clauses ==
    {<<Tok(k)>> : k \in {"MARK", "PAIR", "LONG", "SHORT", "WORD", "TARGET"}}
    \cup {<<Num(30000)>>}
    \cup {<<Tok(k), Num(n)>> : k \in {"ENTRY", "TARGET", "STOP"}, n \in Numbers}
    \cup {<<Tok("TARGET"), Idx, Num(n)>> : n \in Numbers}

\* The tokens of a sequence of clauses.
RECURSIVE Flatten(_)
Flatten(clauses) ==
    IF clauses = <<>> THEN <<>> ELSE Head(clauses) \o Flatten(Tail(clauses))

\* The texts of at most MaxClauses clauses, as sequences of clauses.
ClauseSeqs == UNION {[1..k -> Clauses] : k \in 0..MaxClauses}

\* text.includes / lowerText.includes of the characters of a token: no
\* token's characters contain another cue word.
Includes(text, kinds) == \E i \in DOMAIN text : text[i].kind \in kinds

\* A token that begins with digits, which (\d+\.?\d*) captures: a number, or
\* the digits of an index before its colon.
Numeric(tok) == tok.kind \in {"NUM", "IDX"}

\* The capture of the first match of a regex of the form keyword, optional
\* separator, (\d+\.?\d*): the digits that follow the first such keyword
\* that has digits after it; Null without a match.
FirstCapture(text, kinds) ==
    LET at == {i \in 1..(Len(text) - 1) :
                  text[i].kind \in kinds /\ Numeric(text[i + 1])}
    IN  IF at = {} THEN Null
        ELSE text[(CHOOSE i \in at : \A j \in at : i <= j) + 1].value

\* /SIGNAL:\s+([A-Z0-9]+\/[A-Z0-9]+)\s+(LONG|SHORT)/i, else 'BTC/USDT'
EmojiPair(text) ==
    IF \E i \in 1..(Len(text) - 2) :
          /\ text[i].kind = "MARK" /\ text[i + 1].kind = "PAIR"
          /\ text[i + 2].kind \in {"LONG", "SHORT"}
    THEN "ETH/USDT" ELSE "BTC/USDT"

\* The standard pair regex matches at the first word of the text: a pair
\* token as it is, any other word with '/USDT' appended.
StandardPair(text) ==
    LET first == text[1] IN
    CASE first.kind = "PAIR" -> "ETH/USDT"
      [] first.kind = "MARK" -> "SIGNAL/USDT"
      [] first.kind = "LONG" -> "LONG/USDT"
      [] first.kind = "SHORT" -> "SHORT/USDT"
      [] first.kind = "ENTRY" -> "ENTRY/USDT"
      [] first.kind = "TARGET" -> "TARGET/USDT"
      [] first.kind = "STOP" -> "STOP/USDT"
      [] first.kind = "WORD" -> "SOON/USDT"
      [] first.kind = "IDX" -> "1/USDT"
      [] first.kind = "NUM" -> IF first.value = 30000 THEN "30000/USDT"
                               ELSE "30001/USDT"

\* /(?:Target|[1-3]️⃣)\s*(?:[0-9]+:)?\s*(\d+\.?\d*)/gi at the Target token i:
\* the number after an index with colon, else the digits that follow.
EmojiTargetAt(text, i) ==
    IF i + 1 > Len(text) \/ ~Numeric(text[i + 1]) THEN <<>>
    ELSE IF text[i + 1].kind = "IDX" /\ i + 2 <= Len(text) /\ Numeric(text[i + 2])
         THEN <<text[i + 2].value>>
         ELSE <<text[i + 1].value>>

\* /(?:target|tp|take profit)(?:\s?(?:\d+))?(?:\sat|:|\s)?(?:@|:)?\s?(\d+\.?\d*)/gi
\* at the Target token i: the optional index group takes the digits that
\* follow, so the capture is the next run of digits after them; when there
\* is none the group gives back one digit, the last, and that is the capture.
StandardTargetAt(text, i) ==
    IF i + 1 > Len(text) \/ ~Numeric(text[i + 1]) THEN <<>>
    ELSE IF i + 2 <= Len(text) /\ Numeric(text[i + 2])
         THEN <<text[i + 2].value>>
         ELSE <<text[i + 1].value % 10>>

\* The while loop over targetRegex.exec(text): the captures in text order.
RECURSIVE TargetsFrom(_, _, _)
TargetsFrom(text, i, emoji) ==
    IF i > Len(text) THEN <<>>
    ELSE (IF text[i].kind # "TARGET" THEN <<>>
          ELSE IF emoji THEN EmojiTargetAt(text, i)
          ELSE StandardTargetAt(text, i))
         \o TargetsFrom(text, i + 1, emoji)

\* Array.prototype.sort with (a, b) => a - b.
RECURSIVE SortAscending(_)
SortAscending(seq) ==
    IF seq = <<>> THEN <<>>
    ELSE LET rest == SortAscending(Tail(seq))
             x == Head(seq)
             before == SelectSeq(rest, LAMBDA y : y < x)
             after == SelectSeq(rest, LAMBDA y : y >= x)
         IN  before \o <<x>> \o after

Reverse(seq) == [i \in 1..Len(seq) |-> seq[Len(seq) + 1 - i]]

\* if (isBuy) targets.sort((a, b) => a - b) else targets.sort((a, b) => b - a)
SortTargets(targets, isBuy) ==
    IF isBuy THEN SortAscending(targets) ELSE Reverse(SortAscending(targets))

\* The signal object built from what was extracted.
SignalFrom(pair, isBuy, entryPrice, targets, stopLoss) ==
    ParsedSignal([pair |-> pair,
                  direction |-> IF isBuy THEN "BUY" ELSE "SELL",
                  entryPrice |-> entryPrice,
                  prices |-> SortTargets(targets, isBuy),
                  stopLoss |-> stopLoss])

\* The branch for texts with '📈 SIGNAL:' or '📉 SIGNAL:'.
ParseEmoji(text) ==
    LET isBuy == Includes(text, {"LONG"})
        entryPrice == FirstCapture(text, {"ENTRY"})
    IN  IF entryPrice = Null \/ entryPrice = 0 THEN <<>>
        ELSE <<SignalFrom(EmojiPair(text), isBuy, entryPrice,
                          TargetsFrom(text, 1, TRUE),
                          FirstCapture(text, {"STOP"}))>>

\* The branch for all other texts, after the validation of the cues.
ParseStandard(text) ==
    LET isBuy == Includes(text, {"LONG"})
        entryMatch == FirstCapture(text, {"ENTRY"})
        entryPrice == IF entryMatch # Null THEN entryMatch
                      ELSE FirstCapture(text, {"LONG", "SHORT"})
    IN  IF entryPrice = Null \/ entryPrice = 0 THEN <<>>
        ELSE <<SignalFrom(StandardPair(text), isBuy, entryPrice,
                          TargetsFrom(text, 1, FALSE),
                          FirstCapture(text, {"STOP"}))>>

\* parseSignal(text): <<>> for null, else the signal.
ParseSignal(text) ==
    IF Includes(text, {"MARK"}) THEN ParseEmoji(text)
    ELSE IF ~(Includes(text, {"LONG", "SHORT"}) /\ Includes(text, {"TARGET"}))
         THEN <<>>
         ELSE ParseStandard(text)

\* The dialect for all other texts on its own: the validation of the cues,
\* then the standard branch.
ParseLoose(text) ==
    IF ~(Includes(text, {"LONG", "SHORT"}) /\ Includes(text, {"TARGET"}))
    THEN <<>>
    ELSE ParseStandard(text)

\* processMessage hands the text of a message to parseSignal.
Parse ==
    /\ parser.pc = "text"
    /\ parser' = [parser EXCEPT !.pc = "done", !.result = ParseSignal(parser.text)]
    /\ UNCHANGED <<now, store, events, tick, admin, ingest, created, adminOps,
                   messages, backfill, boot, report>>

(* -------------------------------- start -------------------------------- *)
\* How redisClient.connect() may end.
ConnectOutcomes == {"connected", "rejected"}

\* start() has been called and nothing has run yet.
Starting ==
    [pc |-> "connect", connect |-> "pending", sender |-> "pending",
     scheduled |-> FALSE, result |-> FALSE]

PnlInitialize_Unchecked(outcome) == TRUE

\* pnlService.initialize(): true once connect() has resolved, false when it
\* rejected (the exception is caught and logged).
PnlInitialize(outcome) == outcome = "connected"

\* initialize() of the bot, first half: pnlService.initialize(); a false
\* result is thrown and caught, initialize() returns false, and start()
\* throws, catches and returns false.
StartConnect ==
    /\ boot.pc = "connect"
    /\ \E outcome \in ConnectOutcomes :
          boot' = IF PnlInitialize(outcome)
                  THEN [boot EXCEPT !.pc = "sender", !.connect = outcome]
                  ELSE [boot EXCEPT !.pc = "done", !.connect = outcome,
                                    !.result = FALSE]
    /\ UNCHANGED <<now, store, events, tick, admin, ingest, created, adminOps,
                   messages, backfill, report, parser>>

\* initialize() of the bot, second half: telegramService.initializeSender(),
\* which rethrows; then start() returns false without scheduling.
StartSender ==
    /\ boot.pc = "sender"
    /\ \E outcome \in {"ok", "threw"} :
          boot' = IF outcome = "ok"
                  THEN [boot EXCEPT !.pc = "schedule", !.sender = outcome]
                  ELSE [boot EXCEPT !.pc = "done", !.sender = outcome,
                                    !.result = FALSE]
    /\ UNCHANGED <<now, store, events, tick, admin, ingest, created, adminOps,
                   messages, backfill, report, parser>>

\* scheduleJobs(): the cron jobs exist from here on.
StartSchedule ==
    /\ boot.pc = "schedule"
    /\ boot' = [boot EXCEPT !.pc = "notify", !.scheduled = TRUE]
    /\ UNCHANGED <<now, store, events, tick, admin, ingest, created, adminOps,
                   messages, backfill, report, parser>>

\* The startup message: telegramService.sendMessage returns false on failure
\* and does not throw; start() returns true.
StartNotify ==
    /\ boot.pc = "notify"
    /\ boot' = [boot EXCEPT !.pc = "done", !.result = TRUE]
    /\ UNCHANGED <<now, store, events, tick, admin, ingest, created, adminOps,
                   messages, backfill, report, parser>>

(* ------------------------------ summaries ------------------------------ *)
Periods == {"daily", "weekly", "monthly"}

\* Days the window start lies before today's date: getDate() - 1,
\* getDate() - 7, getMonth() - 1 (a month of DaysPerMonth days).
PeriodDays(period) ==
    CASE period = "daily" -> 1
      [] period = "weekly" -> 7
      [] period = "monthly" -> DaysPerMonth

StartDate_Sliding(period, t) == t - PeriodDays(period) * DayLength

\* startDate: new Date(year, month, date - days), the local midnight that
\* began the day PeriodDays before today.
StartDate(period, t) == ((t \div DayLength) - PeriodDays(period)) * DayLength

\* signal.completedAt || signal.stoppedAt
TerminalTime(signal) ==
    IF signal.completedAt # Null THEN signal.completedAt ELSE signal.stoppedAt

\* The loop over sMembers('completed_signals'): the records found whose
\* terminal timestamp lies between startDate and now.
SummarySignals(period, t) ==
    {id \in completedSet :
        /\ id \in DOMAIN records
        /\ TerminalTime(records[id]) # Null
        /\ TerminalTime(records[id]) >= StartDate(period, t)
        /\ TerminalTime(records[id]) <= t}

RECURSIVE Factorial(_)
Factorial(n) == IF n <= 1 THEN 1 ELSE n * Factorial(n - 1)

\* Profits are kept in hundredths of a percent times ProfitScale, so that
\* the portions 1 / targets.length are whole numbers.
ProfitScale == Factorial(MaxTargets)

HitTargets(signal) == {i \in DOMAIN signal.targets : signal.targets[i].hit}

\* reduce((sum, target) => sum + parseFloat(target.profitPercent), 0)
RECURSIVE SumProfit(_, _)
SumProfit(signal, S) ==
    IF S = {} THEN 0
    ELSE LET i == CHOOSE x \in S : TRUE
         IN  signal.targets[i].profitPercent + SumProfit(signal, S \ {i})

\* parseFloat(signal.maxLoss || 0)
MaxLossOf(signal) == IF signal.maxLoss = Null THEN 0 ELSE signal.maxLoss

Outcome_StoppedIsNeverSuccessful(signal) ==
    IF Cardinality(HitTargets(signal)) = Len(signal.targets) /\ ~signal.stopped
    THEN "successful"
    ELSE IF HitTargets(signal) = {} /\ signal.stopped THEN "failed"
    ELSE "partial"

\* The branch calculateSignalStats takes for a signal: allTargetsHit, else
\* noTargetsHit && signal.stopped, else the rest.
Outcome(signal) ==
    IF Cardinality(HitTargets(signal)) = Len(signal.targets) THEN "successful"
    ELSE IF HitTargets(signal) = {} /\ signal.stopped THEN "failed"
    ELSE "partial"

\* What a signal adds to totalProfit - totalLoss; nan when the average of
\* the targets of a signal without targets, 0 / 0, is added.
Contribution(signal) ==
    LET n == Len(signal.targets)
        hits == HitTargets(signal)
    IN  CASE Outcome(signal) = "successful" ->
                IF n = 0 THEN [nan |-> TRUE, value |-> 0]
                ELSE [nan |-> FALSE,
                      value |-> SumProfit(signal, hits) * (ProfitScale \div n)]
          [] Outcome(signal) = "failed" ->
                [nan |-> FALSE, value |-> -(MaxLossOf(signal) * ProfitScale)]
          [] Outcome(signal) = "partial" ->
                IF hits = {} THEN [nan |-> FALSE, value |-> 0]
                ELSE [nan |-> FALSE,
                      value |-> SumProfit(signal, hits) * (ProfitScale \div n)
                                - (IF signal.stopped
                                   THEN MaxLossOf(signal) * (n - Cardinality(hits))
                                           * (ProfitScale \div n)
                                   ELSE 0)]

NoStats ==
    [total |-> 0, successful |-> 0, partiallySuccessful |-> 0, failed |-> 0,
     netProfit |-> 0, nan |-> FALSE]

\* calculateSignalStats: the counts and the net profit over the signals.
RECURSIVE CalculateSignalStats(_)
CalculateSignalStats(ids) ==
    IF ids = {} THEN NoStats
    ELSE LET id == CHOOSE x \in ids : TRUE
             rest == CalculateSignalStats(ids \ {id})
             signal == records[id]
             c == Contribution(signal)
         IN  [total |-> rest.total + 1,
              successful |-> rest.successful
                    + (IF Outcome(signal) = "successful" THEN 1 ELSE 0),
              partiallySuccessful |-> rest.partiallySuccessful
                    + (IF Outcome(signal) = "partial" THEN 1 ELSE 0),
              failed |-> rest.failed
                    + (IF Outcome(signal) = "failed" THEN 1 ELSE 0),
              netProfit |-> rest.netProfit + c.value,
              nan |-> rest.nan \/ c.nan]

\* winRate = ((successful + partiallySuccessful) / total) * 100, as a fraction.
WinRate(stats) ==
    [numerator |-> (stats.successful + stats.partiallySuccessful) * 100,
     denominator |-> stats.total]

\* generatePnlSummary(period) at the current time, from the cron job or the
\* CLI command summary: the signals of the window and, if there are any,
\* their statistics.
GenerateSummary(period) ==
    /\ report = NoReport
    /\ LET ids == SummarySignals(period, now) IN
          report' = [period |-> period, at |-> now, signals |-> ids,
                     stats |-> IF ids = {} THEN <<>>
                               ELSE <<CalculateSignalStats(ids)>>]
    /\ UNCHANGED <<now, store, events, tick, admin, ingest, created, adminOps,
                   messages, backfill, boot, parser>>

\* The summary has been posted (or there was nothing to post).
SummaryReturn ==
    /\ report # NoReport
    /\ report' = NoReport
    /\ UNCHANGED <<now, store, events, tick, admin, ingest, created, adminOps,
                   messages, backfill, boot, parser>>

\* The clock up to the time a summary is asked for.
ClockUntilSummary ==
    /\ now < MaxReportClock
    /\ now' = now + 1
    /\ UNCHANGED <<store, events, tick, admin, ingest, created, adminOps,
                   messages, backfill, ancillary>>

(* --------------------------- specification ----------------------------- *)
TickStep(t) ==
    \/ TickStart(t)
    \/ TickLoad(t)
    \/ TickPrice(t)
    \/ TickEval(t)
    \/ TickSave(t)
    \/ TickSRem(t)
    \/ TickSAdd(t)

AdminStep ==
    \/ \E op \in {"complete", "stop"}, id \in IdSpace : AdminGet(op, id)
    \/ AdminSet
    \/ AdminSRem
    \/ AdminSAdd
    \/ AdminNotify
    \/ AdminReturn

IngestStep(p) ==
    \/ \E alert \in Alerts : IngestExists(p, alert)
    \/ IngestMark(p)
    \/ IngestRecord(p)
    \/ IngestSAddActive(p)
    \/ IngestSAddPair(p)
    \/ IngestNotify(p)
    \/ IngestReturn(p)

\* One alert with two distinct targets, with or without a stop-loss.
RaceAlerts ==
    {a \in Alerts : a.pair = "ETH/USDT" /\ a.direction = "BUY" /\ Len(a.prices) = 2
                    /\ a.prices[1] < a.prices[2]}

\* The bot (cron tick, live ingestion) and the CLI (forced update, overrides)
\* running concurrently against the store, on one alert, within one reading
\* of the clock.
Init == InitWith({{a} : a \in RaceAlerts})

Next ==
    \/ \E t \in TickProcs : TickStep(t)
    \/ AdminStep
    \/ \E p \in IngestProcs : IngestStep(p)

Spec == Init /\ [][Next]_vars

\* The bot alone, one operation (storeSignal call or tick) at a time, the
\* clock advancing between operations, on any one alert of a pair whose price
\* lookup can fail, or on one alert per pair.
SingleInboxes == {{a} : a \in {x \in Alerts : x.pair \notin TestPairs}}

PairedInboxes ==
    {{a, b} : a \in {x \in Alerts : x.pair \in TestPairs /\ x.direction = "BUY"
                                      /\ x.prices = <<1>> /\ x.stopLoss = Null},
              b \in {x \in Alerts : x.pair \notin TestPairs /\ Len(x.prices) = 1
                                      /\ x.stopLoss = Null}}

InitSeq == InitWith(SingleInboxes \cup PairedInboxes)

\* No storeSignal call is in progress / no tick is in progress.
IngestQuiet == \A p \in IngestProcs : ingest[p].pc = "idle"
TickQuiet == \A t \in TickProcs : tick[t].pc = "idle"

NextSeq ==
    \/ IngestQuiet /\ TickQuiet /\ AdvanceClock
    \/ IngestQuiet /\ TickStep("cron")
    \/ TickQuiet /\ \E p \in IngestProcs : IngestStep(p)

SpecSeq == InitSeq /\ [][NextSeq]_vars

\* The bot alone as in SpecSeq, with a store whose commands may be rejected
\* and a process that may be stopped during a tick.
TickFault(t) ==
    \/ TickStoreFails(t)
    \/ TickReadFails(t)
    \/ TickAbandon(t)

NextFault ==
    \/ NextSeq
    \/ IngestQuiet /\ BagCardinality(events) < MaxEvents /\ TickFault("cron")

SpecFault == InitSeq /\ [][NextFault]_vars

\* The bot and the CLI, one operation at a time: live storeSignal calls, the
\* cron tick and the CLI commands complete, stop and delete, the clock
\* advancing between operations.
DeleteStep ==
    \/ \E id \in IdSpace : DeleteExists(id)
    \/ DeleteGet
    \/ DeleteDel
    \/ DeleteSRemActive
    \/ DeleteSRemCompleted
    \/ DeleteSRemPair

BackfillStep ==
    \/ BackfillStart
    \/ BackfillProcess
    \/ BackfillCount
    \/ BackfillReturn
    \/ BackfillEnd
    \/ IngestMark("backfill")
    \/ IngestRecord("backfill")
    \/ IngestSAddActive("backfill")
    \/ IngestSAddPair("backfill")
    \/ IngestNotify("backfill")

AdminQuiet == admin.pc = "idle"
BackfillQuiet == backfill.pc = "idle"

\* Two alerts on one pair, from two channels that number their messages alike.
SamePairInboxes ==
    {{a, b} : a \in {x \in Alerts : x.pair = "ETH/USDT" /\ x.direction = "BUY"
                                     /\ x.prices = <<2>> /\ x.stopLoss = Null},
              b \in {x \in Alerts : x.pair = "ETH/USDT" /\ x.direction = "SELL"
                                     /\ x.prices = <<1>> /\ x.stopLoss = Null}}

\* One BUY alert with the targets 1 and 2, with or without a stop-loss.
OpsAlerts == {a \in RaceAlerts : a.prices = <<1, 2>>}

InitOps == InitWith({{a} : a \in OpsAlerts})

NextOps ==
    \/ IngestQuiet /\ TickQuiet /\ AdminQuiet /\ AdvanceClock
    \/ IngestQuiet /\ AdminQuiet /\ TickStep("cron")
    \/ TickQuiet /\ AdminQuiet /\ \E p \in IngestProcs : IngestStep(p)
    \/ IngestQuiet /\ TickQuiet /\ (AdminStep \/ DeleteStep)

SpecOps == InitOps /\ [][NextOps]_vars

\* The bot with its scheduled backfill, one operation at a time: live
\* storeSignal calls, the cron tick and backfillSignals runs over the
\* channel's messages, the clock advancing between operations.
InitBackfill == InitWith({{a} : a \in RaceAlerts} \cup SamePairInboxes)

NextBackfill ==
    \/ IngestQuiet /\ TickQuiet /\ BackfillQuiet /\ AdvanceClock
    \/ IngestQuiet /\ BackfillQuiet /\ TickStep("cron")
    \/ TickQuiet /\ BackfillQuiet /\ \E p \in IngestProcs : IngestStep(p)
    \/ IngestQuiet /\ TickQuiet /\ BackfillStep

SpecBackfill == InitBackfill /\ [][NextBackfill]_vars

\* The bot from its start: start() runs, and the cron jobs (tick, backfill
\* and the three summaries at their midnights) run once scheduleJobs has
\* created them, one operation at a time.
StartStep ==
    \/ StartConnect
    \/ StartSender
    \/ StartSchedule
    \/ StartNotify

ReportQuiet == report = NoReport

\* '0 0 * * *', '0 0 * * 0', '0 0 1 * *': the midnights a summary job fires at
\* (clock 0 is the midnight that begins a Sunday, the 1st).
CronDue(period, t) == t % (PeriodDays(period) * DayLength) = 0

InitStart ==
    /\ InitStore({{a} : a \in OpsAlerts})
    /\ boot = Starting
    /\ report = NoReport
    /\ parser = NoText

NextStart ==
    \/ StartStep
    \/ IngestQuiet /\ TickQuiet /\ BackfillQuiet /\ ReportQuiet /\ AdvanceClock
    \/ boot.scheduled /\ BackfillQuiet /\ ReportQuiet /\ TickStep("cron")
    \/ boot.scheduled /\ TickQuiet /\ ReportQuiet /\ BackfillStep
    \/ /\ boot.scheduled /\ TickQuiet /\ BackfillQuiet
       /\ \E period \in Periods : CronDue(period, now) /\ GenerateSummary(period)
    \/ SummaryReturn

SpecStart == InitStart /\ [][NextStart]_vars

\* The bot with summaries asked for at any time (the cron jobs or the CLI
\* command summary), one operation at a time, on one alert per pair.
ReportInboxes ==
    {{a, b} : a \in {x \in Alerts : x.pair \in TestPairs /\ x.direction = "BUY"
                                     /\ Len(x.prices) <= 1
                                     /\ x.stopLoss \in {Null, 1}},
              b \in {x \in Alerts : x.pair \notin TestPairs /\ x.direction = "BUY"
                                     /\ x.prices = <<1, 2>>
                                     /\ x.stopLoss \in {Null, 1}}}

InitReport == InitWith(ReportInboxes)

NextReport ==
    \/ IngestQuiet /\ TickQuiet /\ ReportQuiet /\ ClockUntilSummary
    \/ IngestQuiet /\ ReportQuiet /\ TickStep("cron")
    \/ TickQuiet /\ ReportQuiet /\ now <= MaxClock
          /\ \E p \in IngestProcs : IngestStep(p)
    \/ IngestQuiet /\ TickQuiet /\ \E period \in Periods : GenerateSummary(period)
    \/ SummaryReturn

SpecReport == InitReport /\ [][NextReport]_vars

\* parseSignal alone, on every text of at most MaxClauses clauses.
InitParse ==
    /\ InitStore({{}})
    /\ boot = StartedBot
    /\ report = NoReport
    /\ \E clauses \in ClauseSeqs :
          parser = [pc |-> "text", text |-> Flatten(clauses), result |-> <<>>]

SpecParse == InitParse /\ [][Parse]_vars

\* The bot alone as in SpecSeq, with a store that may reject a command of
\* storeSignal.
NextStoreFault ==
    \/ NextSeq
    \/ TickQuiet /\ \E p \in IngestProcs : IngestStoreFails(p)

SpecStoreFault == InitSeq /\ [][NextStoreFault]_vars

\* The live message handler and the scheduled backfill side by side: the
\* commands of their storeSignal calls interleave in any order, and the clock
\* advances at any moment.
NextIngestRace ==
    \/ AdvanceClock
    \/ \E p \in IngestProcs : IngestStep(p)
    \/ BackfillStep

SpecIngestRace == InitOps /\ [][NextIngestRace]_vars

\* The cron tick of the bot and deleteSignal of the CLI side by side, on
\* signals stored beforehand: the commands of the two interleave in any order.
NextDeleteRace ==
    \/ IngestQuiet /\ TickQuiet /\ AdminQuiet /\ AdvanceClock
    \/ TickQuiet /\ AdminQuiet /\ \E p \in IngestProcs : IngestStep(p)
    \/ IngestQuiet /\ TickStep("cron")
    \/ IngestQuiet /\ DeleteStep

SpecDeleteRace == InitOps /\ [][NextDeleteRace]_vars

\* The bot with an available store, on any one alert of a pair whose price
\* lookup can fail: the live message handler and the cron tick side by side.
\* The cron job fires every minute and every command a tick awaits returns,
\* so a tick that can take a step eventually takes it.  No evaluation reads
\* the clock except to stamp a transition, and the clock stands still here.
NextLive ==
    \/ \E p \in IngestProcs : IngestStep(p)
    \/ TickStep("cron")

SpecLive == InitWith(SingleInboxes) /\ [][NextLive]_vars /\ WF_vars(TickStep("cron"))

(* ------------------------------ properties ----------------------------- *)
\* The evaluations in progress: the tick, the snapshot it read (before), the
\* signal as updateSignalStatus left it (after), the price and the notifications.
Evaluations ==
    {[t |-> t, id |-> tick[t].cur[1].id, before |-> tick[t].cur[1].before,
      after |-> tick[t].cur[1].signal, price |-> tick[t].price,
      emitted |-> tick[t].cur[1].emitted] : t \in {u \in TickProcs : tick[u].cur # <<>>}}

Reached(direction, price, level) ==
    \/ direction = "BUY" /\ price >= level
    \/ direction = "SELL" /\ price <= level

Crossed(direction, price, level) ==
    \/ direction = "BUY" /\ price <= level
    \/ direction = "SELL" /\ price >= level

SomeUnhit(signal) == \E i \in DOMAIN signal.targets : ~signal.targets[i].hit

\* C1: under ticks and manual overrides, a stored status that is COMPLETED or
\* STOPPED never changes afterwards (the only transitions leave ACTIVE).
C1_TerminalStatusIsFinal ==
    [][\A id \in DOMAIN records :
          (/\ tick' # tick \/ admin' # admin
           /\ id \in DOMAIN records'
           /\ records[id].status \in Terminal)
          => records'[id].status = records[id].status]_vars

\* C2: a tick that read a signal whose stored status is COMPLETED or STOPPED
\* leaves the stored status and every target's hit flag and timestamp unchanged.
C2_TickLeavesTerminalSignalAlone ==
    [][\A t \in TickProcs :
          (/\ tick'[t] # tick[t]
           /\ tick[t].cur # <<>>
           /\ tick[t].cur[1].before.status \in Terminal
           /\ tick[t].cur[1].id \in DOMAIN records
           /\ records[tick[t].cur[1].id].status \in Terminal)
          => /\ tick[t].cur[1].id \in DOMAIN records'
             /\ records'[tick[t].cur[1].id].status = records[tick[t].cur[1].id].status
             /\ records'[tick[t].cur[1].id].targets = records[tick[t].cur[1].id].targets]_vars

\* C3: in every store state a record never has both completedAt and stoppedAt;
\* completedAt only with status COMPLETED, stoppedAt only with status STOPPED.
C3_TerminalTimestampsMatchStatus ==
    \A id \in DOMAIN records :
        /\ ~(records[id].completedAt # Null /\ records[id].stoppedAt # Null)
        /\ records[id].completedAt # Null => records[id].status = "COMPLETED"
        /\ records[id].stoppedAt # Null => records[id].status = "STOPPED"

\* C4: an evaluation of an ACTIVE signal after which every target is hit ends
\* COMPLETED (completedAt set, stoppedAt unset, a completion event and no
\* stop-hit event), whether or not the price satisfies the stop condition.
C4_AllTargetsHitCompletes ==
    \A e \in Evaluations :
        (e.before.status = "ACTIVE" /\ ~SomeUnhit(e.after))
        => /\ e.after.status = "COMPLETED"
           /\ e.after.completedAt # Null
           /\ e.after.stoppedAt = Null
           /\ Event("completed", e.id, 0) \in e.emitted
           /\ Event("stop", e.id, 0) \notin e.emitted

\* C5: an evaluation of an ACTIVE signal that leaves some target unhit sets
\* STOPPED, stoppedAt and emits the stop-hit event exactly when a stop-loss is
\* set and the price has crossed it; otherwise the signal stays ACTIVE.
C5_StopExactlyWhenStopCrossed ==
    \A e \in Evaluations :
        (e.before.status = "ACTIVE" /\ SomeUnhit(e.after))
        => IF e.before.stopLoss # Null
              /\ Crossed(e.before.direction, e.price, e.before.stopLoss)
           THEN /\ e.after.status = "STOPPED"
                /\ e.after.stoppedAt # Null
                /\ Event("stop", e.id, 0) \in e.emitted
           ELSE /\ e.after.status = "ACTIVE"
                /\ e.after.stoppedAt = Null
                /\ Event("stop", e.id, 0) \notin e.emitted

\* C5 witness: a tick that hit a target, left another unhit and stopped the signal.
C5_Witness ==
    \E e \in Evaluations :
        /\ e.before.status = "ACTIVE"
        /\ SomeUnhit(e.after)
        /\ \E i \in DOMAIN e.after.targets : e.after.targets[i].hit /\ ~e.before.targets[i].hit
        /\ e.after.status = "STOPPED"

\* C6: after an evaluation of an ACTIVE signal the hit targets are the targets
\* hit before plus every unhit target the price has reached; each newly hit
\* target has exactly its own target-hit event; a target hit before keeps its
\* flag and its timestamp.
C6_HitsAreThoseReached ==
    \A e \in Evaluations :
        e.before.status = "ACTIVE"
        => /\ DOMAIN e.after.targets = DOMAIN e.before.targets
           /\ \A i \in DOMAIN e.before.targets :
                 LET b == e.before.targets[i]
                     a == e.after.targets[i]
                 IN  /\ a.hit = (b.hit \/ Reached(e.before.direction, e.price, b.price))
                     /\ a.price = b.price /\ a.number = b.number
                     /\ b.hit => a.timestamp = b.timestamp
                     /\ (Event("target", e.id, i) \in e.emitted) = (a.hit /\ ~b.hit)
           /\ \A ev \in e.emitted :
                 ev.kind = "target" => ev.id = e.id /\ ev.number \in DOMAIN e.before.targets

\* C6 witness: a later tick hits the second target of a signal whose first
\* target was hit at an earlier instant.
C6_Witness ==
    \E e \in Evaluations :
        /\ e.before.status = "ACTIVE"
        /\ Len(e.before.targets) = 2
        /\ e.before.targets[1].hit /\ e.before.targets[1].timestamp < now
        /\ ~e.before.targets[2].hit /\ e.after.targets[2].hit

\* C6 witness of several hits in one tick.
C6_WitnessTwoHits ==
    \E e \in Evaluations :
        /\ e.before.status = "ACTIVE"
        /\ Cardinality({ev \in e.emitted : ev.kind = "target"}) = 2

RecordHash(r) == <<r.pair, r.direction, r.entryPrice, r.messageId>>

\* C7: a storeSignal call made for (pair, direction, entryPrice, messageId)
\* while the marker a previous call set for it is less than DedupeTTL old returns
\* the no-op result and writes nothing; whenever a call has returned, the
\* records of its alert are in the per-pair set, and a returned id is one of them.
C7_SecondCreateInWindowIsNoOp ==
    /\ [][\A p \in IngestProcs : \A alert \in Alerts :
            (/\ ingest[p].pc = "idle" /\ ingest'[p].pc # "idle"
             /\ ingest'[p].alert = <<alert>>
             /\ RecordHash(alert) \in DOMAIN markers
             /\ now < markers[RecordHash(alert)])
            => /\ ingest'[p].pc = "done" /\ ingest'[p].result = <<>>
               /\ UNCHANGED <<records, activeSet, completedSet, pairSet, markers,
                              events>>]_vars
    /\ [](\A p \in IngestProcs :
            ingest[p].pc = "done"
            => LET alert == ingest[p].alert[1]
                   same == {i \in DOMAIN records :
                               RecordHash(records[i]) = RecordHash(alert)}
               IN  /\ same # {}
                   /\ same \subseteq pairSet[alert.pair]
                   /\ ingest[p].result # <<>> => ingest[p].result[1] \in same
                   /\ ingest[p].result = <<>> => ingest[p].id = <<>>)

\* C7 witness: a second call for the stored alert returned the no-op result.
C7_Witness ==
    \E p \in IngestProcs :
        /\ ingest[p].pc = "done"
        /\ ingest[p].result = <<>>
        /\ Cardinality(DOMAIN records) = 1
        /\ Cardinality(pairSet[ingest[p].alert[1].pair]) = 1

\* C8: two executions of updateSignals are never in progress at once.
C8_OneTickAtATime ==
    Cardinality({t \in TickProcs : tick[t].pc # "idle"}) <= 1

\* C9: a tick's write never puts the ACTIVE snapshot it read earlier over a
\* terminal status stored since (same-id mutations are serialized).
C9_TickNeverRevivesTerminal ==
    [][\A t \in TickProcs :
          (/\ tick'[t] # tick[t]
           /\ tick[t].cur # <<>>
           /\ tick[t].cur[1].id \in DOMAIN records
           /\ records[tick[t].cur[1].id].status \in Terminal)
          => /\ tick[t].cur[1].id \in DOMAIN records'
             /\ records'[tick[t].cur[1].id].status # "ACTIVE"]_vars

EventsOf(bag, id) == {ev \in BagToSet(bag) : ev.id = id}

\* C10: once the price lookup of a pair has failed in a tick, no step of that
\* tick changes the record or an index membership of a signal on that pair or
\* emits an event for it; the failed lookup itself changes nothing and the
\* tick goes on to the remaining pairs.
C10_UnavailablePriceSkipsPair ==
    [][\A t \in TickProcs :
          tick'[t] # tick[t]
          => /\ \A id \in IdSpace :
                   id[1] \in tick'[t].skipped \cup tick[t].skipped
                   => /\ (id \in DOMAIN records) = (id \in DOMAIN records')
                      /\ id \in DOMAIN records => records'[id] = records[id]
                      /\ (id \in activeSet) = (id \in activeSet')
                      /\ (id \in completedSet) = (id \in completedSet')
                      /\ (id \in pairSet[id[1]]) = (id \in pairSet'[id[1]])
                      /\ \A ev \in EventsOf(events', id) :
                            CopiesIn(ev, events') = CopiesIn(ev, events)
             /\ tick'[t].skipped # tick[t].skipped /\ tick'[t].pc # "idle"
                   => /\ UNCHANGED <<records, activeSet, completedSet, pairSet, events>>
                      /\ tick'[t].pc = "price"
                      /\ tick'[t].pairs = Tail(tick[t].pairs)]_vars

\* C10 witness: after a failed lookup for one pair, the same tick has evaluated
\* and changed a signal of another pair.
C10_Witness ==
    \E e \in Evaluations :
        /\ tick[e.t].skipped # {}
        /\ e.before.pair \notin tick[e.t].skipped
        /\ e.after # e.before

\* No operation is in progress.
Quiet == IngestQuiet /\ TickQuiet /\ AdminQuiet /\ BackfillQuiet

\* C11: the step that hands a notification to delivery leaves the store as it
\* is and continues the operation the same way whether the delivery succeeds,
\* answers with a failure or throws: an evaluation goes on to write its
\* transition (the record, then the move from the active to the completed
\* set); storeSignal, whose writes precede the notification, returns the id;
\* a manual override, whose writes precede it too, returns true.
C11_DeliveryNeverRevertsTransition ==
    [][/\ \A t \in TickProcs :
            /\ (tick'[t] # tick[t] /\ events' # events)
               => /\ UNCHANGED store
                  /\ tick'[t].pc = "save"
                  /\ tick'[t].cur # <<>>
                  /\ tick'[t].cur[1].emitted # {}
                  /\ tick'[t].cur[1].signalUpdated
                  /\ tick'[t].cur[1].signal # tick'[t].cur[1].before
            /\ (tick'[t] # tick[t] /\ tick[t].pc = "save"
                                   /\ tick[t].cur[1].signalUpdated)
               => /\ tick[t].cur[1].id \in DOMAIN records'
                  /\ records'[tick[t].cur[1].id] = tick[t].cur[1].signal
                  /\ tick'[t].pc = "srem" <=> tick[t].cur[1].signalCompleted
            /\ (tick'[t] # tick[t] /\ tick[t].pc = "srem")
               => tick[t].cur[1].id \notin activeSet' /\ tick'[t].pc = "sadd"
            /\ (tick'[t] # tick[t] /\ tick[t].pc = "sadd")
               => tick[t].cur[1].id \in completedSet'
       /\ \A p \in StoreProcs :
            (ingest[p].pc = "notify" /\ ingest'[p] # ingest[p])
            => /\ UNCHANGED store
               /\ ingest'[p].pc = "done"
               /\ ~ingest'[p].threw
               /\ ingest'[p].result = <<ingest[p].id>>
       /\ (admin.pc = "notify" /\ admin' # admin)
            => /\ UNCHANGED store
               /\ admin'.pc = "done"
               /\ admin'.result = TRUE]_vars

\* C11 witness: the delivery of a stop or completion notification threw, and
\* the tick has stored the terminal record and removed the id from the
\* active set.
C11_Witness ==
    \E t \in TickProcs :
        /\ tick[t].pc = "sadd"
        /\ tick[t].cur[1].delivery = "threw"
        /\ records[tick[t].cur[1].id] = tick[t].cur[1].signal
        /\ records[tick[t].cur[1].id].status \in Terminal
        /\ tick[t].cur[1].id \notin activeSet

\* C11 witnesses for the other notifications.
C11_WitnessCreate ==
    \E p \in StoreProcs :
        /\ ingest[p].pc = "done" /\ ingest[p].delivery = "failed"
        /\ ingest[p].result # <<>> /\ ingest[p].result[1] \in activeSet

C11_WitnessManual ==
    /\ admin.pc = "done" /\ admin.delivery = "threw" /\ admin.result
    /\ records[admin.id].status \in Terminal

\* C12: once a store command of a tick has failed, that tick evaluates no
\* further signal and fetches no further price: its next step is its return,
\* and it changes neither the records nor the sets any more.
C12_StoreFailureAbortsTick ==
    [][\A t \in TickProcs :
          (tick[t].failed /\ tick'[t] # tick[t])
          => /\ tick'[t].pc = "idle"
             /\ UNCHANGED <<store, events>>]_vars

\* The store is valid: the active and completed sets are disjoint, every id
\* of the active set has an ACTIVE record, and every COMPLETED or STOPPED
\* record is in the completed set and not in the active set.
StoreValid ==
    /\ activeSet \cap completedSet = {}
    /\ \A id \in activeSet : id \in DOMAIN records /\ records[id].status = "ACTIVE"
    /\ \A id \in DOMAIN records :
          records[id].status \in Terminal => id \in completedSet /\ id \notin activeSet

\* C13: the store is valid whenever no operation is in progress, also after a
\* tick was abandoned or failed between two of its store commands.
C13_StoreValidWhenQuiet == Quiet => StoreValid

\* C14: storeSignal never writes its record over an existing one: the id it
\* builds is not the id of a stored signal, also for two alerts on one pair
\* stored at the same reading of the clock.
C14_CreateNeverOverwrites ==
    [][\A p \in StoreProcs :
          (ingest[p].pc = "record" /\ ingest'[p].pc = "sadd")
          => ingest'[p].id \notin DOMAIN records]_vars

\* The CLI command that has returned: its operation, and whether it found
\* the record.
AdminDone(op) == admin.pc = "done" /\ admin.op = op

\* A CLI command on an id without record returns false and changes nothing.
UnknownIdIsNoOp(op) ==
    (/\ admin.pc = "idle" /\ admin' # admin /\ admin'.op = op
     /\ admin'.id \notin DOMAIN records)
    => /\ admin'.pc = "done"
       /\ admin'.result = FALSE
       /\ UNCHANGED <<store, events>>

\* C15: when deleteSignal(id) has returned true, id has no record and is in
\* none of the active set, the completed set and the per-pair sets; it
\* returns true exactly for an id that had a record; on an id with no record
\* it returns false and changes nothing.
C15_DeleteRemovesRecordAndMemberships ==
    /\ [](AdminDone("delete")
            => IF admin.result
               THEN /\ admin.before # <<>>
                    /\ admin.id \notin DOMAIN records
                    /\ admin.id \notin activeSet
                    /\ admin.id \notin completedSet
                    /\ \A p \in Pairs : admin.id \notin pairSet[p]
               ELSE admin.before = <<>>)
    /\ [][/\ UnknownIdIsNoOp("delete")
           /\ (admin.pc = "idle" /\ admin' # admin /\ admin'.op = "delete"
                /\ admin'.id \in DOMAIN records) => admin'.pc # "done"]_vars

\* C15 witness: deleteSignal returned true for a signal that was COMPLETED
\* or STOPPED while records of other signals remain.
C15_Witness ==
    /\ AdminDone("delete") /\ admin.result
    /\ admin.before[1].status \in Terminal
    /\ admin.id \notin DOMAIN records

\* C15 witness for an ACTIVE signal.
C15_WitnessActive ==
    /\ AdminDone("delete") /\ admin.result
    /\ admin.before[1].status = "ACTIVE"
    /\ activeSet = {}

\* C16: a step of a tick removes no record and changes no per-pair set; the
\* only changes it makes to the sets are removing the evaluated id from the
\* active set and adding it to the completed set; a step that removes a
\* record is the redis.del of deleteSignal and removes that id only.
C16_TickNeverRemovesRecords ==
    [][/\ \A t \in TickProcs :
            tick'[t] # tick[t]
            => /\ DOMAIN records \subseteq DOMAIN records'
               /\ pairSet' = pairSet
               /\ activeSet' # activeSet
                  => activeSet' = activeSet \ {tick[t].cur[1].id}
               /\ completedSet' # completedSet
                  => completedSet' = completedSet \cup {tick[t].cur[1].id}
       /\ ~(DOMAIN records \subseteq DOMAIN records')
            => /\ admin.op = "delete" /\ admin.pc = "del" /\ admin'.pc = "dactive"
               /\ DOMAIN records' = DOMAIN records \ {admin.id}]_vars

\* C16 witness: a tick has moved a signal to the completed set; its record
\* and its per-pair membership are still there, and no CLI command has run.
C16_Witness ==
    \E id \in completedSet :
        /\ adminOps = 0
        /\ id \notin activeSet
        /\ id \in DOMAIN records
        /\ records[id].status \in Terminal
        /\ id \in pairSet[records[id].pair]

\* C17: when completeSignal(id) has returned for a signal that was ACTIVE,
\* it returned true, every target is hit, the targets hit before keep their
\* timestamp and the others carry the time of the call, the status is
\* COMPLETED with completedAt set, and id has moved from the active set to
\* the completed set; on an id with no record it returns false and changes
\* nothing.
C17_CompleteSignalContract ==
    /\ [](AdminDone("complete")
            => IF admin.before = <<>> THEN ~admin.result
               ELSE admin.before[1].status = "ACTIVE"
                    => LET b == admin.before[1]
                           r == records[admin.id]
                       IN  /\ admin.result
                           /\ DOMAIN r.targets = DOMAIN b.targets
                           /\ \A i \in DOMAIN b.targets :
                                 /\ r.targets[i].hit
                                 /\ r.targets[i].price = b.targets[i].price
                                 /\ b.targets[i].hit
                                    => r.targets[i].timestamp = b.targets[i].timestamp
                                 /\ ~b.targets[i].hit
                                    => r.targets[i].timestamp = r.completedAt
                           /\ r.status = "COMPLETED"
                           /\ r.completed
                           /\ r.completedAt # Null
                           /\ admin.id \notin activeSet
                           /\ admin.id \in completedSet)
    /\ [][UnknownIdIsNoOp("complete")]_vars

\* C17 witness: completeSignal has returned for an ACTIVE signal whose first
\* target a tick had hit at an earlier instant and whose second was unhit.
C17_Witness ==
    /\ AdminDone("complete") /\ admin.result
    /\ admin.before[1].status = "ACTIVE"
    /\ Len(admin.before[1].targets) = 2
    /\ admin.before[1].targets[1].hit
    /\ admin.before[1].targets[1].timestamp < records[admin.id].completedAt
    /\ ~admin.before[1].targets[2].hit

\* C18: when stopSignal(id) has returned for a signal that was ACTIVE, it
\* returned true, the status is STOPPED with stoppedAt set, id has moved from
\* the active set to the completed set, and the targets (hit flags and
\* timestamps), the entry price and the stop-loss are as before; no step of
\* it changes a per-pair set; on an id with no record it returns false and
\* changes nothing.
C18_StopSignalContract ==
    /\ [](AdminDone("stop")
            => IF admin.before = <<>> THEN ~admin.result
               ELSE admin.before[1].status = "ACTIVE"
                    => LET b == admin.before[1]
                           r == records[admin.id]
                       IN  /\ admin.result
                           /\ r.status = "STOPPED"
                           /\ r.stopped
                           /\ r.stoppedAt # Null
                           /\ r.targets = b.targets
                           /\ r.entryPrice = b.entryPrice
                           /\ r.stopLoss = b.stopLoss
                           /\ r.completedAt = b.completedAt
                           /\ admin.id \notin activeSet
                           /\ admin.id \in completedSet
                           /\ admin.id \in pairSet[b.pair])
    /\ [][/\ UnknownIdIsNoOp("stop")
           /\ (admin' # admin /\ "stop" \in {admin.op, admin'.op})
                => pairSet' = pairSet]_vars

\* C18 witness: stopSignal has returned for an ACTIVE signal with one target
\* hit and one unhit.
C18_Witness ==
    /\ AdminDone("stop") /\ admin.result
    /\ admin.before[1].status = "ACTIVE"
    /\ Len(admin.before[1].targets) = 2
    /\ admin.before[1].targets[1].hit
    /\ ~admin.before[1].targets[2].hit
    /\ records[admin.id].targets = admin.before[1].targets

\* C19: the count backfillSignals returns is the number of messages of the
\* run for which a record was created; a suppressed duplicate is not counted.
C19_BackfillCountsStoredSignals ==
    backfill.pc = "done" => backfill.signalsFound = backfill.stored

\* C20: a run of backfillSignals after the first creates no record, adds no
\* id to the active or per-pair sets and sends no new-signal notification:
\* no step of its storeSignal calls changes the records, the sets or the
\* notifications.
C20_BackfillIsIdempotent ==
    [][(/\ backfill.runs >= 2
        /\ backfill' # backfill \/ ingest'["backfill"] # ingest["backfill"])
       => UNCHANGED <<records, activeSet, completedSet, pairSet, events>>]_vars

\* C28: a storeSignal call, live or from the backfill, that finds the marker of
\* its alert still in Redis ends at once with the null result and no
\* exception, and neither that step nor its return changes a record, a set
\* membership, a marker or its expiry, or the notifications.
C28_DuplicateStoreIsNoOp ==
    [][\A p \in StoreProcs :
          /\ (/\ ingest[p].pc = "idle" /\ ingest'[p].pc # "idle"
              /\ HashOf(ingest'[p].alert[1]) \in DOMAIN markers
              /\ now < markers[HashOf(ingest'[p].alert[1])])
             => /\ ingest'[p].pc = "done"
                /\ ingest'[p].id = <<>> /\ ingest'[p].result = <<>>
                /\ ~ingest'[p].threw /\ ingest'[p].delivery = "none"
                /\ UNCHANGED <<store, events, created>>
          /\ (/\ ingest[p].pc = "done" /\ ingest[p].id = <<>>
              /\ ingest'[p] # ingest[p])
             => /\ ingest'[p] = IdleIngest
                /\ ~ingest[p].threw
                /\ UNCHANGED <<store, events, created>>]_vars

\* C28 witness: a backfilled duplicate has returned null some time after the
\* marker was set, and the marker still has the expiry it was set with.
C28_Witness ==
    /\ ingest["backfill"].pc = "done"
    /\ ingest["backfill"].id = <<>> /\ ingest["backfill"].result = <<>>
    /\ LET h == HashOf(ingest["backfill"].alert[1]) IN
          /\ h \in DOMAIN markers
          /\ now < markers[h] /\ markers[h] < now + DedupeTTL
    /\ Cardinality(DOMAIN records) = 1

\* C29: when a tick has finished with an ACTIVE signal whose stop condition
\* does not hold at the tick's price, then, if a target is neither hit before
\* nor reached by the price, the record is ACTIVE, in the active set, not in
\* the completed set and no completion was ever notified; otherwise the
\* record is COMPLETED with completedAt the time of this tick, the id has
\* moved from the active to the completed set and exactly one completion
\* notification exists for it.
C29_CompletesWhenLastTargetHit ==
    [][\A t \in TickProcs :
          (/\ tick[t].cur # <<>> /\ tick'[t].cur = <<>>
           /\ tick[t].cur[1].before.status = "ACTIVE"
           /\ ~(/\ tick[t].cur[1].before.stopLoss # Null
                /\ Crossed(tick[t].cur[1].before.direction, tick[t].price,
                           tick[t].cur[1].before.stopLoss)))
          => LET c == tick[t].cur[1]
                 b == c.before
                 left == {i \in DOMAIN b.targets :
                             /\ ~b.targets[i].hit
                             /\ ~Reached(b.direction, tick[t].price, b.targets[i].price)}
             IN  IF left # {}
                 THEN /\ records'[c.id].status = "ACTIVE"
                      /\ ~records'[c.id].completed
                      /\ c.id \in activeSet' /\ c.id \notin completedSet'
                      /\ CopiesIn(Event("completed", c.id, 0), events') = 0
                 ELSE /\ records'[c.id].status = "COMPLETED"
                      /\ records'[c.id].completed
                      /\ records'[c.id].completedAt = now
                      /\ c.id \notin activeSet' /\ c.id \in completedSet'
                      /\ CopiesIn(Event("completed", c.id, 0), events') = 1]_vars

\* C29 witness: a signal with two targets, the first hit by an earlier tick
\* that left it ACTIVE, completed by the tick that hit the second.
C29_Witness ==
    \E id \in completedSet :
        /\ id \in DOMAIN records /\ id \notin activeSet
        /\ records[id].status = "COMPLETED"
        /\ Len(records[id].targets) = 2
        /\ records[id].targets[1].timestamp < records[id].targets[2].timestamp
        /\ records[id].completedAt = records[id].targets[2].timestamp
        /\ TickQuiet

\* C30: within a tick no pair is looked up twice; every evaluation of the
\* tick used the price its pair's lookup returned; and once the tick has left
\* a pair whose lookup returned a price, every signal the tick loaded on that
\* pair has been evaluated.
C30_OneLookupPerPair ==
    \A t \in TickProcs :
        LET l == tick[t] IN
        /\ \A i, j \in DOMAIN l.lookups :
              l.lookups[i].pair = l.lookups[j].pair => i = j
        /\ \A e \in Range(l.evaluated) :
              \E q \in Range(l.lookups) : q.pair = e.pair /\ q.price = e.price
        /\ \A i \in DOMAIN l.lookups :
              (l.lookups[i].price # Null /\ (i < Len(l.lookups) \/ l.pc = "price"))
              => \A x \in Range(l.loaded) :
                    x.signal.pair = l.lookups[i].pair
                    => \E e \in Range(l.evaluated) :
                          e.id = x.id /\ e.price = l.lookups[i].price

\* C30 witness: a tick has evaluated two signals of one pair after a single
\* lookup.
C30_Witness ==
    \E t \in TickProcs :
        /\ Len(tick[t].lookups) = 1
        /\ Len(tick[t].evaluated) = 2
        /\ tick[t].evaluated[1].id # tick[t].evaluated[2].id
        /\ tick[t].evaluated[1].pair = tick[t].evaluated[2].pair

\* C21: once redisClient.connect() has been rejected, start() is over with
\* the result false and no job scheduled, and from then on no step runs a
\* tick, a backfill or a summary or changes the store or the notifications.
C21_NoJobsWithoutStore ==
    /\ [](boot.connect = "rejected"
            => boot.pc = "done" /\ ~boot.result /\ ~boot.scheduled)
    /\ [][boot.connect = "rejected"
            => UNCHANGED <<store, events, tick, backfill, ingest, report>>]_vars

\* C21 witness: start() has returned false after a rejected connect, time
\* has passed and nothing has run.
C21_Witness ==
    /\ boot.pc = "done" /\ boot.connect = "rejected" /\ ~boot.result
    /\ now > 0
    /\ records = <<>> /\ TickQuiet /\ BackfillQuiet /\ ReportQuiet

\* C22: a summary generated for a period at time t includes exactly the
\* records whose status is COMPLETED or STOPPED and whose terminal timestamp
\* lies between t minus the period and t.
C22_SummaryWindowIsThePeriod ==
    report # NoReport
    => report.signals =
          {id \in DOMAIN records :
              /\ records[id].status \in Terminal
              /\ TerminalTime(records[id]) # Null
              /\ TerminalTime(records[id]) >= report.at - PeriodDays(report.period) * DayLength
              /\ TerminalTime(records[id]) <= report.at}

\* C23: in the statistics of a summary, successful counts the signals with
\* all targets hit and never stopped, failed those stopped with no target
\* hit, partial all others; the three counts sum to the total, and the win
\* rate is (successful + partial) / total * 100.
C23_OutcomesAsSpecified ==
    report.stats # <<>>
    => LET st == report.stats[1]
           AllHit(id) == \A i \in DOMAIN records[id].targets : records[id].targets[i].hit
           NoneHit(id) == \A i \in DOMAIN records[id].targets : ~records[id].targets[i].hit
           good == {id \in report.signals : AllHit(id) /\ ~records[id].stopped}
           bad == {id \in report.signals : records[id].stopped /\ NoneHit(id)}
       IN  /\ st.total = Cardinality(report.signals)
           /\ st.successful = Cardinality(good \ bad)
           /\ st.failed = Cardinality(bad)
           /\ st.partiallySuccessful = Cardinality(report.signals \ (good \cup bad))
           /\ st.successful + st.partiallySuccessful + st.failed = st.total
           /\ WinRate(st) = [numerator |-> (st.successful + st.partiallySuccessful) * 100,
                             denominator |-> st.total]

\* The net profit the summary rules give for a set of signals, in the units
\* of netProfit: the average of the targets for a signal with all targets
\* hit; for the others the hit targets' profitPercent over the target count,
\* less, if stopped, maxLoss for the share of the targets not hit.
RECURSIVE SpecifiedNet(_)
SpecifiedNet(ids) ==
    IF ids = {} THEN 0
    ELSE LET id == CHOOSE x \in ids : TRUE
             signal == records[id]
             n == Len(signal.targets)
             hits == {i \in DOMAIN signal.targets : signal.targets[i].hit}
             loss == IF signal.stopped /\ signal.maxLoss # Null
                     THEN signal.maxLoss * (n - Cardinality(hits)) ELSE 0
         IN  SpecifiedNet(ids \ {id})
             + (IF n = 0 THEN 0
                ELSE (SumProfit(signal, hits) - loss) * (ProfitScale \div n))

\* C24: the net profit of a summary is a number, the sum over its signals
\* of the contribution the rules give each.
C24_NetProfitIsSumOfContributions ==
    report.stats # <<>>
    => /\ ~report.stats[1].nan
       /\ report.stats[1].netProfit = SpecifiedNet(report.signals)

\* C25: for every text with neither a direction cue nor a target cue,
\* parseSignal returns null, texts with the SIGNAL marker and an entry
\* number included.
C25_NoCuesNoSignal ==
    (/\ parser.pc = "done"
     /\ ~Includes(parser.text, {"LONG", "SHORT"})
     /\ ~Includes(parser.text, {"TARGET"}))
    => parser.result = <<>>

\* C26: every signal parseSignal returns has at least one target.
C26_ParsedSignalHasTarget ==
    (parser.pc = "done" /\ parser.result # <<>>)
    => Len(parser.result[1].targets) >= 1

\* The target at price lies on the favourable side of the entry.
Favourable(direction, entryPrice, price) ==
    \/ direction = "BUY" /\ price > entryPrice
    \/ direction = "SELL" /\ price < entryPrice

\* Targets in ascending order for BUY and descending for SELL, numbered 1..n
\* in that order, all unhit.
TargetsInOrder(signal) ==
    /\ \A i, j \in DOMAIN signal.targets :
          i < j => IF signal.direction = "BUY"
                   THEN signal.targets[i].price <= signal.targets[j].price
                   ELSE signal.targets[i].price >= signal.targets[j].price
    /\ \A i \in DOMAIN signal.targets :
          /\ signal.targets[i].number = i
          /\ ~signal.targets[i].hit
          /\ signal.targets[i].timestamp = Null

Persisted(ev) ==
    /\ ev.id \in DOMAIN records
    /\ CASE ev.kind = "target" ->
              /\ ev.number \in DOMAIN records[ev.id].targets
              /\ records[ev.id].targets[ev.number].hit
         [] ev.kind = "stop" -> records[ev.id].status = "STOPPED"
         [] ev.kind = "completed" -> records[ev.id].status = "COMPLETED"
         [] OTHER -> TRUE

TransitionKinds == {"target", "stop", "completed"}

\* C31: at the step that hands a target-hit, stop-hit or completion
\* notification to delivery, the stored record already shows the transition.
C31_TransitionStoredBeforeNotified ==
    [][\A ev \in BagToSet(events') :
          (ev.kind \in TransitionKinds /\ CopiesIn(ev, events') > CopiesIn(ev, events))
          => Persisted(ev)]_vars

\* C33: parseSignal returns what the emoji dialect returns when that dialect
\* succeeds, and otherwise what the loose dialect returns, so it returns null
\* only for a text on which both dialects fail.
C33_FirstDialectThatSucceeds ==
    parser.pc = "done"
    => parser.result =
          IF Includes(parser.text, {"MARK"}) /\ ParseEmoji(parser.text) # <<>>
          THEN ParseEmoji(parser.text)
          ELSE ParseLoose(parser.text)

\* C35: no target-hit event of one target, no stop-hit event and no
\* completion event of one signal is emitted more than once.
C35_TransitionEventsAtMostOnce ==
    \A ev \in BagToSet(events) :
        ev.kind \in TransitionKinds => CopiesIn(ev, events) <= 1

\* C37: the tick that evaluates a signal of the active set whose stored
\* record is COMPLETED or STOPPED goes on to move it: the evaluation ends with
\* the removal from the active set and the addition to the completed set due.
C37_TerminalRecordIsMoved ==
    [][\A t \in TickProcs :
          (/\ tick[t].pc = "eval"
           /\ tick'[t].pc = "save"
           /\ tick'[t].cur[1].before.status \in Terminal
           /\ tick'[t].cur[1].id \in activeSet)
          => /\ tick'[t].cur[1].signalUpdated
             /\ tick'[t].cur[1].signalCompleted]_vars

\* C39: in every stored record the hit targets form a prefix of the target
\* list: a target is hit only if every target before it is hit.
C39_HitTargetsFormPrefix ==
    \A id \in DOMAIN records :
        \A i, j \in DOMAIN records[id].targets :
            (i < j /\ records[id].targets[j].hit) => records[id].targets[i].hit

\* C39 witness: a stored record, written by a tick, with its first target
\* hit and its second target not hit.
C39_Witness ==
    \E id \in DOMAIN records :
        /\ Len(records[id].targets) = 2
        /\ records[id].targets[1].hit
        /\ ~records[id].targets[2].hit
        /\ Event("target", id, 1) \in BagToSet(events)

\* C39 witness for the manual overrides: a record stopped by hand with its
\* first target hit only.
C39_WitnessManual ==
    /\ AdminDone("stop") /\ admin.result
    /\ records[admin.id].targets[1].hit
    /\ ~records[admin.id].targets[2].hit

\* No stored record is the record of the alert.
NoRecordOf(alert) ==
    \A id \in DOMAIN records : RecordHash(records[id]) # HashOf(alert)

\* C40: no step of deleteSignal changes a dedupe marker; a storeSignal call
\* for an alert whose record was deleted, made while the marker of the alert
\* is less than DedupeTTL old, returns the no-op result and creates no record.
C40_DeleteKeepsMarker ==
    [][/\ (admin' # admin /\ admin'.op = "delete") => markers' = markers
       /\ \A p \in IngestProcs :
            (/\ ingest[p].pc = "idle" /\ ingest'[p].pc # "idle"
             /\ CopiesIn(HashOf(ingest'[p].alert[1]), created) > 0
             /\ NoRecordOf(ingest'[p].alert[1])
             /\ HashOf(ingest'[p].alert[1]) \in DOMAIN markers
             /\ now < markers[HashOf(ingest'[p].alert[1])])
            => /\ ingest'[p].pc = "done"
               /\ ingest'[p].result = <<>>
               /\ ~ingest'[p].threw
               /\ UNCHANGED <<store, events>>]_vars

\* C40 witness: the alert was stored, its record was deleted by the CLI, and
\* a second storeSignal call for it has returned the no-op result.
C40_Witness ==
    \E p \in IngestProcs :
        /\ ingest[p].pc = "done"
        /\ ingest[p].result = <<>>
        /\ CopiesIn(HashOf(ingest[p].alert[1]), created) = 1
        /\ DOMAIN records = {}
        /\ adminOps > 0
        /\ MarkerExists(HashOf(ingest[p].alert[1]))

\* The price lookups the running cron tick has made for the pair of id.
LookupsFor(id) ==
    LET Test(l) == l.pair = id[1] IN SelectSeq(tick["cron"].lookups, Test)

\* The running cron tick has evaluated id (called updateSignalStatus on it).
EvaluatedNow(id) ==
    \E i \in DOMAIN tick["cron"].evaluated : tick["cron"].evaluated[i].id = id

\* Every lookup of the running tick for the pair of id returned a price.
PriceAvailable(id) ==
    \A i \in DOMAIN LookupsFor(id) : LookupsFor(id)[i].price # Null

\* Every lookup of the running tick for the pair of id returned a price at
\* or beyond the last target of id and not at or beyond its stop-loss.
PriceBeyondLastTarget(id) ==
    \A i \in DOMAIN LookupsFor(id) :
        LET price == LookupsFor(id)[i].price
            signal == records[id]
        IN  /\ price # Null
            /\ Reached(signal.direction, price,
                       signal.targets[Len(signal.targets)].price)
            /\ signal.stopLoss # Null
                  => ~Crossed(signal.direction, price, signal.stopLoss)

\* id stays an ACTIVE signal of the active set and its price is available.
ActiveWithPrice(id) ==
    IF id \in DOMAIN records
    THEN /\ id \in activeSet
         /\ records[id].status = "ACTIVE"
         /\ PriceAvailable(id)
    ELSE FALSE

\* id is a tracked signal with a target, not stopped, whose price is at or
\* beyond its last target.
UnstoppedAtLastTarget(id) ==
    IF id \in DOMAIN records
    THEN /\ records[id].status # "STOPPED"
         /\ records[id].targets # <<>>
         /\ id \in activeSet \cup completedSet
         /\ PriceBeyondLastTarget(id)
    ELSE FALSE

\* id is COMPLETED, out of the active set and in the completed set.
CompletedAndMoved(id) ==
    IF id \in DOMAIN records
    THEN /\ records[id].status = "COMPLETED"
         /\ id \notin activeSet
         /\ id \in completedSet
    ELSE FALSE

\* The ids storeSignal gives under SpecLive.
LiveIds == {SignalId(p, 0) : p \in Pairs \ TestPairs}

\* C32: a signal that stays ACTIVE in the active set while, from some tick
\* on, the price of its pair is available is evaluated again and again; and a
\* signal that is not stopped and whose price, from some tick on, is
\* available at or beyond its last target without meeting the stop-loss
\* eventually is COMPLETED, out of the active set and in the completed set.
C32_ActiveSignalIsEvaluatedAndCompletes ==
    \A id \in LiveIds :
        /\ <>[]ActiveWithPrice(id) => []<>EvaluatedNow(id)
        /\ <>[]UnstoppedAtLastTarget(id) => <>CompletedAndMoved(id)

\* C32 witness for the skipped tick: the price lookup of the running tick
\* failed for the pair of an ACTIVE signal of the active set.
C32_WitnessSkipped ==
    \E id \in LiveIds \cap activeSet : ~PriceAvailable(id)

\* C32 witness: the running tick found the price at the last target of a
\* SELL signal with two distinct targets and a stop-loss, evaluated the
\* signal, completed it and moved it to the completed set.
C32_Witness ==
    \E id \in LiveIds :
        /\ CompletedAndMoved(id)
        /\ UnstoppedAtLastTarget(id)
        /\ EvaluatedNow(id)
        /\ tick["cron"].pc = "price"
        /\ records[id].direction = "SELL"
        /\ Len(records[id].targets) = 2
        /\ records[id].targets[1].price # records[id].targets[2].price
        /\ records[id].stopLoss # Null

\* The number of notifications of a kind handed to delivery.
CountEvents(kind) ==
    BagCardinality([ev \in {e \in BagToSet(events) : e.kind = kind} |-> events[ev]])

\* C34: while the marker of the first storeSignal call is alive, the store
\* holds at most one record of the alert and at most one new-signal
\* notification was handed to delivery, however the commands of the live
\* handler and of the backfill interleave.
C34_OneRecordPerAlert ==
    now < DedupeTTL
    => /\ \A alert \in messages :
             Cardinality({id \in DOMAIN records :
                             RecordHash(records[id]) = HashOf(alert)}) <= 1
       /\ Cardinality(messages) = 1 => CountEvents("new") <= 1

\* C36: a step of a tick creates no record, adds no id to the active set,
\* and adds to the completed set only the id of a stored record.
C36_DeletedStaysDeleted ==
    [][\A t \in TickProcs :
          tick'[t] # tick[t]
          => /\ DOMAIN records' \subseteq DOMAIN records
             /\ activeSet' \subseteq activeSet
             /\ (completedSet' \ completedSet) \subseteq DOMAIN records]_vars

\* C38: when no storeSignal call is in progress, every alert whose marker is
\* alive has had its record written.
C38_MarkerImpliesRecordCreated ==
    IngestQuiet
    => \A alert \in messages :
          MarkerExists(HashOf(alert)) => CopiesIn(HashOf(alert), created) > 0

====
